---- MODULE Spec2Model ----
(***************************************************************************)
(* Dual-valve pressure controller (StateMachinePressureController), its    *)
(* adaptive outlet loop, the set_pressure command path, the operator       *)
(* window's handlers (e-stop, resume, manual valve actions) and the        *)
(* calibration sequencer.                                                  *)
(*                                                                         *)
(* Units.  Pressures are integers in mTorr (0.001 Torr); valve positions   *)
(* are integers in tenths of a percent (0..1000).  Setpoints are           *)
(* multiples of 1000 mTorr, so that every threshold of the adaptive loop   *)
(* (sp*0.003 + FS*0.0008, 0.005 + sp*0.001, FS*0.02, ...) is an integer.   *)
(***************************************************************************)
EXTENDS Integers, Sequences, FiniteSets, TLC

VARIABLES
    \* ---- StateMachinePressureController fields
    e_stop,                     \* e_stop_event (shared with the window)
    stop_event,                 \* _stop_event
    polling_thread,             \* _polling_thread is not None
    hold_all_valves,
    hold_outlet_valve,
    manual_override_active,
    system_setpoint,
    previous_setpoint,
    pressure_history,
    current_pressure,
    inlet_valve_pos,
    outlet_valve_pos,
    inlet_pos_history,
    oscillation_counter,
    oscillation_cooldown,
    inlet_oscillation_counter,
    inlet_near_closed_counter,
    max_slope_hold,
    inlet_high_blind_active,
    last_log_reason,
    \* ---- tasks
    poller,                     \* the polling thread: "run" | "exited"
    adaptive,                   \* the adaptive outlet thread: pc and locals
    calls,                      \* set_pressure invocations: pc and locals
    gui,                        \* the window's thread: handler in progress
    seq,                        \* run_calibration: pc and locals
    \* ---- CalibrationGUI fields
    is_calibrating,
    is_in_manual_mode,
    is_pumping_down,
    learned_outlet_positions,   \* setpoint -> the outlet positions learned for it
    active_duts,                \* channel -> full scale of each enabled DUT
    completed_duts,             \* channels whose range the run has passed
    data_storage,               \* the row last appended to data_storage
    manual_learn,               \* ManualCalFrame's learning target and flags
    cal_results_df,             \* the (standard, DUT) columns of one DUT's results
    dut_pass_status,            \* the analysis' verdict for that DUT, or "none"
    generated_certs,            \* whether generate_certificate was called for it
    \* ---- the serial lines
    transport,                  \* endpoint locks, device queues, queries under way
    status_flags,               \* turbo_controller.status_flags
    rpm,                        \* turbo_controller.rpm
    link_lost,                  \* the serial link to the valve controllers is down
    e_stop_button,              \* the E-Stop button is enabled
    resume_button,              \* the Resume button is enabled
    set_pressure_button,        \* the main window's Set button is enabled
    \* ---- the serial lines
    wire,                       \* the frame written by the last step, or NoFrame
    estop_trace                 \* what the running/last e_stop_action has done

ctlVars == <<e_stop, stop_event, polling_thread, hold_all_valves, hold_outlet_valve,
             manual_override_active>>
spVars == <<system_setpoint, previous_setpoint>>
readVars == <<pressure_history, current_pressure, inlet_valve_pos, outlet_valve_pos,
              inlet_pos_history>>
adaptVars == <<oscillation_counter, oscillation_cooldown, inlet_oscillation_counter,
               inlet_near_closed_counter, max_slope_hold, inlet_high_blind_active,
               last_log_reason>>
taskVars == <<poller, adaptive, calls, gui, seq>>
appVars == <<is_calibrating, is_in_manual_mode, is_pumping_down,
             learned_outlet_positions, active_duts,
             completed_duts, data_storage, manual_learn, status_flags,
             e_stop_button, resume_button, set_pressure_button>>
reportVars == <<cal_results_df, dut_pass_status, generated_certs>>
vars == <<ctlVars, spVars, readVars, adaptVars, taskVars, appVars, wire, estop_trace,
          transport, reportVars, rpm, link_lost>>

----------------------------------------------------------------------------
\* Configuration and program constants

full_scale_pressure == 10000
None == -1
HistLen == 10
\* TurboController: self.standby_rpm_threshold, self.nominal_rpm_threshold
standby_rpm_threshold == 12000
nominal_rpm_threshold == 27000

\* Bounds of the model
MaxNearClosed == 6
MaxCalls == 2
MaxSetpoints == 3
RangeLogged == 10

Min(a, b) == IF a < b THEN a ELSE b
Max(a, b) == IF a > b THEN a ELSE b
Abs(x) == IF x < 0 THEN -x ELSE x

RECURSIVE SumSeq(_)
SumSeq(s) == IF s = <<>> THEN 0 ELSE Head(s) + SumSeq(Tail(s))

\* deque(maxlen=10).append
Push(h, x) == IF Len(h) < HistLen THEN Append(h, x) ELSE Append(Tail(h), x)

\* n*(n-1)*variance of h, computed on the deviations from the first sample
\* (the variance is shift-invariant; this keeps the integers small)
ScaledVariance(h) ==
    LET d == [i \in 1..Len(h) |-> h[i] - h[1]]
        sq == [i \in 1..Len(h) |-> d[i] * d[i]]
    IN  Len(h) * SumSeq(sq) - SumSeq(d) * SumSeq(d)

\* statistics.stdev(h) > t  and  statistics.stdev(h) < t   (sample deviation, t >= 0)
\* A sample further than t*n from the first one alone puts the deviation above t
\* (n*(n-1)*variance is the sum of the squared pairwise differences), so the
\* squares are only taken of histories without one.
FarSample(h, t) == \E i \in 1..Len(h) : Abs(h[i] - h[1]) > t * Len(h)
StdevAbove(h, t) ==
    FarSample(h, t) \/ ScaledVariance(h) > t * t * Len(h) * (Len(h) - 1)
StdevBelow(h, t) ==
    ~FarSample(h, t) /\ ScaledVariance(h) < t * t * Len(h) * (Len(h) - 1)

\* abs(statistics.mean(h) - sp) < FS * 0.02
IsNearSetpoint(h, sp) ==
    Abs(SumSeq(h) - Len(h) * sp) * 100 < 2 * full_scale_pressure * Len(h)

\* Faulty variant of OscillationThreshold: sp*0.03 in place of sp*0.003
OscillationThresholdTenfold(sp) ==
    (sp * 3) \div 100 + (full_scale_pressure * 8) \div 10000

\* sp*0.003 + FS*0.0008   and   0.005 + sp*0.001   (in mTorr)
OscillationThreshold(sp) == (sp * 3) \div 1000 + (full_scale_pressure * 8) \div 10000
StableThreshold(sp) == 5 + sp \div 1000

\* one frame on a serial line
NoFrame == [ep |-> "none", cmd |-> "none", val |-> 0, by |-> "none"]
Frame(ep, cmd, val, by) == [ep |-> ep, cmd |-> cmd, val |-> val, by |-> by]

----------------------------------------------------------------------------
\* The adaptive outlet loop (_run_adaptive_outlet_loop)

\* Dynamic outlet clamp: <<min_clamp, max_clamp>> for a setpoint
ClampBand(sp) ==
    LET pct == IF full_scale_pressure > 0 THEN sp * 100 ELSE 0
    IN  IF pct <= 10 * full_scale_pressure THEN <<50, 850>>
        ELSE IF pct <= 40 * full_scale_pressure THEN <<150, 500>>
        ELSE IF pct < 90 * full_scale_pressure THEN <<220, 350>>
        ELSE <<220, 400>>

\* Faulty variant of Clamp: the lower bound is dropped
ClampUpperOnly(band, x) == Min(band[2], x)

\* clamped_pos = max(min_clamp, min(max_clamp, new_outlet_pos))
Clamp(band, x) == Max(band[1], Min(band[2], x))

\* The body of one evaluating tick, from the blind-window check to the decision
\* (new_outlet_pos, log_reason) and the updated counters and flags.
\* expired: (time.time() - inlet_high_blind_start_time) > 10.0
\* raised: a StatisticsError left the try block at that point.
AdaptiveDecision(expired) ==
    LET sp == system_setpoint
        ph == pressure_history
        ih == inlet_pos_history
        cur == outlet_valve_pos
        inl == inlet_valve_pos
        error == current_pressure - sp
        blind == inlet_high_blind_active /\ ~expired
        same == [raised |-> TRUE, blind |-> blind,
                 oc |-> oscillation_counter, counted |-> oscillation_counter,
                 cd |-> oscillation_cooldown,
                 ioc |-> inlet_oscillation_counter, ncc |-> inlet_near_closed_counter,
                 msh |-> max_slope_hold, new |-> cur, reason |-> "Holding"]
        counting == IsNearSetpoint(ph, sp) /\ ~blind
        oscillating == StdevAbove(ph, OscillationThreshold(sp))
        oc1 == IF ~counting THEN 0
               ELSE IF oscillating THEN Min(oscillation_counter + 1, 5)
               ELSE Max(oscillation_counter - 1, 0)
        cd1 == IF ~counting THEN FALSE
               ELSE IF oscillating THEN TRUE
               ELSE IF oc1 = 0 THEN FALSE ELSE oscillation_cooldown
        ioc1 == IF ~counting THEN 0
                ELSE IF Len(ih) # HistLen THEN inlet_oscillation_counter
                ELSE IF StdevAbove(ih, 20) THEN Min(inlet_oscillation_counter + 1, 5)
                ELSE Max(inlet_oscillation_counter - 1, 0)
        ncc1 == IF inl > 995 THEN inlet_near_closed_counter + 1 ELSE 0
        upd == [same EXCEPT !.raised = FALSE, !.oc = oc1, !.counted = oc1, !.cd = cd1,
                            !.ioc = ioc1, !.ncc = ncc1]
        stable == StdevBelow(ph, StableThreshold(sp))
        trend == IF Len(ih) > 1 THEN inl - ih[Len(ih) - 1] ELSE 0
        \* the last branch: stuck high / inlet overworked / inlet near closed
        stepped ==
            IF stable /\ error > 200 /\ ~blind /\ ~cd1
            THEN [upd EXCEPT !.new = cur + 5, !.reason = "Stuck high"]
            ELSE IF inl < 750 /\ ~cd1 /\ ~blind
            THEN IF trend < -1
                 THEN [upd EXCEPT !.msh = TRUE, !.reason = "Max Slope Detected (Opening)"]
                 ELSE [upd EXCEPT !.new = cur - 5, !.reason = "Inlet valve overworked"]
            ELSE IF ncc1 >= 5 /\ sp > 0 /\ previous_setpoint # 0
            THEN IF error * 100 > full_scale_pressure
                 THEN [upd EXCEPT !.new = cur + 10, !.ncc = 0,
                                  !.reason = "Inlet closed, pressure high"]
                 ELSE [upd EXCEPT !.new = cur + 5, !.ncc = 0,
                                  !.reason = "Inlet valve near closed"]
            ELSE upd
        held ==
            IF ~stepped.msh THEN stepped
            ELSE IF stable /\ error > 100
            THEN [stepped EXCEPT !.msh = FALSE, !.reason = "Max Slope Hold -> Released"]
            ELSE [stepped EXCEPT !.new = cur, !.reason = "Max Slope Hold"]
    IN  IF Len(ph) = 0 THEN same                          \* statistics.mean raises
        ELSE IF Len(ph) < 2 /\ counting THEN same         \* statistics.stdev raises
        ELSE IF oc1 >= 2
        THEN IF error * 100 > full_scale_pressure * 5
             THEN [upd EXCEPT !.new = cur - 20, !.oc = 0, !.reason = "EMERGENCY DESCENT"]
             ELSE [upd EXCEPT !.new = cur - 2, !.oc = 0, !.reason = "Pressure oscillating"]
        ELSE IF ioc1 >= 3
        THEN [upd EXCEPT !.new = cur - 2, !.ioc = 0, !.reason = "Inlet valve oscillating"]
        ELSE IF inl < 10 /\ error > 100
        THEN [upd EXCEPT !.new = cur + 2, !.reason = "Leak Up Detected"]
        ELSE IF Len(ph) < 2 THEN [upd EXCEPT !.raised = TRUE]   \* stdev raises after the counters
        ELSE held

AdaptiveIdle == [pc |-> "top", sp |-> 0, pos |-> 0, reason |-> ""]

\* while not self._stop_event.is_set() and not self.e_stop_event.is_set()
AdaptiveExit ==
    /\ adaptive.pc = "top"
    /\ stop_event \/ e_stop
    /\ adaptive' = [adaptive EXCEPT !.pc = "exited"]
    /\ wire' = NoFrame
    /\ UNCHANGED <<link_lost, rpm, reportVars,
                   transport, ctlVars, spVars, readVars, adaptVars, poller, calls, gui, seq,
                   appVars, estop_trace>>

\* Faulty variant of AdaptiveSkips: the manual-override guard is missing
AdaptiveSkipsIgnoringOverride ==
    \/ hold_all_valves \/ hold_outlet_valve
    \/ Len(pressure_history) < HistLen \/ system_setpoint <= 0
    \/ current_pressure = None \/ inlet_valve_pos = None

\* The three guards that skip a tick (sleep 1.0; continue)
AdaptiveSkips ==
    \/ manual_override_active
    \/ hold_all_valves \/ hold_outlet_valve
    \/ Len(pressure_history) < HistLen \/ system_setpoint <= 0
    \/ current_pressure = None \/ inlet_valve_pos = None

AdaptiveSkip ==
    /\ adaptive.pc = "top"
    /\ ~(stop_event \/ e_stop)
    /\ AdaptiveSkips
    /\ adaptive' = [adaptive EXCEPT !.pc = "top"]
    /\ wire' = NoFrame
    /\ UNCHANGED <<link_lost, rpm, reportVars,
                   transport, ctlVars, spVars, readVars, adaptVars, poller, calls, gui, seq,
                   appVars, estop_trace>>

AdaptiveBegin ==
    /\ adaptive.pc = "top"
    /\ ~(stop_event \/ e_stop)
    /\ ~AdaptiveSkips
    /\ adaptive' = [adaptive EXCEPT !.pc = "eval"]
    /\ wire' = NoFrame
    /\ UNCHANGED <<link_lost, rpm, reportVars,
                   transport, ctlVars, spVars, readVars, adaptVars, poller, calls, gui, seq,
                   appVars, estop_trace>>

\* Faulty variant of AdaptiveEvaluate: the decision is taken as if the blind
\* window were over, while the flag is kept until it expires
AdaptiveEvaluateIgnoringBlind(expired) ==
    /\ adaptive.pc = "eval"
    /\ inlet_near_closed_counter < MaxNearClosed
    /\ \E d \in {AdaptiveDecision(TRUE)} :
       LET band == ClampBand(system_setpoint)
           clamped == Clamp(band, d.new)
           writes == ~d.raised /\ ~(d.reason = "Holding" /\ d.blind)
                     /\ Abs(clamped - outlet_valve_pos) > 1
       IN  /\ inlet_high_blind_active' = (inlet_high_blind_active /\ ~expired)
           /\ oscillation_counter' = d.oc
           /\ oscillation_cooldown' = d.cd
           /\ inlet_oscillation_counter' = d.ioc
           /\ inlet_near_closed_counter' = d.ncc
           /\ max_slope_hold' = d.msh
           /\ last_log_reason' =
                 IF d.raised \/ (d.reason = "Holding" /\ d.blind) THEN last_log_reason
                 ELSE IF writes THEN d.reason ELSE ""
           /\ adaptive' = IF writes
                          THEN [pc |-> "s1", sp |-> system_setpoint, pos |-> clamped,
                                reason |-> d.reason]
                          ELSE AdaptiveIdle
    /\ wire' = NoFrame
    /\ UNCHANGED <<link_lost, rpm, reportVars,
                   transport, ctlVars, spVars, readVars, poller, calls, gui, seq, appVars,
                   estop_trace>>

\* The try block of one tick up to the decision whether to write
AdaptiveEvaluate(expired) ==
    /\ adaptive.pc = "eval"
    /\ inlet_near_closed_counter < MaxNearClosed
    /\ \E d \in {AdaptiveDecision(expired)} :
       LET band == ClampBand(system_setpoint)
           clamped == Clamp(band, d.new)
           writes == ~d.raised /\ ~(d.reason = "Holding" /\ d.blind)
                     /\ Abs(clamped - outlet_valve_pos) > 1
       IN  /\ inlet_high_blind_active' = d.blind
           /\ oscillation_counter' = d.oc
           /\ oscillation_cooldown' = d.cd
           /\ inlet_oscillation_counter' = d.ioc
           /\ inlet_near_closed_counter' = d.ncc
           /\ max_slope_hold' = d.msh
           /\ last_log_reason' =
                 IF d.raised \/ (d.reason = "Holding" /\ d.blind) THEN last_log_reason
                 ELSE IF writes THEN d.reason ELSE ""
           /\ adaptive' = IF writes
                          THEN [pc |-> "s1", sp |-> system_setpoint, pos |-> clamped,
                                reason |-> d.reason]
                          ELSE AdaptiveIdle
    /\ wire' = NoFrame
    /\ UNCHANGED <<link_lost, rpm, reportVars,
                   transport, ctlVars, spVars, readVars, poller, calls, gui, seq, appVars,
                   estop_trace>>

\* One tick from the blind-window check to the test of the oscillation counter
\* (oscillation_counter >= 2, error not above 5 % of full scale), with the other
\* threads running before the log line takes the deviation of the history again
AdaptiveEvaluateToOscillationLog(expired) ==
    /\ adaptive.pc = "eval"
    /\ inlet_near_closed_counter < MaxNearClosed
    /\ \E d \in {AdaptiveDecision(expired)} :
          /\ ~d.raised /\ d.reason = "Pressure oscillating"
          /\ inlet_high_blind_active' = d.blind
          /\ oscillation_counter' = d.counted
          /\ oscillation_cooldown' = d.cd
          /\ inlet_oscillation_counter' = d.ioc
          /\ inlet_near_closed_counter' = d.ncc
          /\ adaptive' = [pc |-> "osc", sp |-> system_setpoint, pos |-> d.new,
                          reason |-> d.reason]
    /\ wire' = NoFrame
    /\ UNCHANGED <<link_lost, rpm, reportVars,
                   transport, ctlVars, spVars, readVars, poller, calls, gui, seq, appVars,
                   estop_trace, max_slope_hold, last_log_reason>>

\* log_reason = f"Pressure oscillating (StdDev: {statistics.stdev(...)})";
\* self.oscillation_counter = 0; then the clamp and the decision whether to write.
\* A history of fewer than two samples raises StatisticsError, which ends the tick.
AdaptiveOscillationLog ==
    /\ adaptive.pc = "osc"
    /\ LET cur == adaptive.pos + 2          \* new_outlet_pos = current_outlet_pos - 0.2
           clamped == Clamp(ClampBand(system_setpoint), adaptive.pos)
           writes == Abs(clamped - cur) > 1
       IN  IF Len(pressure_history) < 2
           THEN /\ adaptive' = AdaptiveIdle
                /\ UNCHANGED <<oscillation_counter, last_log_reason>>
           ELSE /\ oscillation_counter' = 0
                /\ last_log_reason' = IF writes THEN adaptive.reason ELSE ""
                /\ adaptive' = IF writes
                               THEN [pc |-> "s1", sp |-> system_setpoint, pos |-> clamped,
                                     reason |-> adaptive.reason]
                               ELSE AdaptiveIdle
    /\ wire' = NoFrame
    /\ UNCHANGED <<link_lost, rpm, reportVars,
                   transport, ctlVars, spVars, readVars, poller, calls, gui, seq, appVars,
                   estop_trace, inlet_high_blind_active, oscillation_cooldown,
                   inlet_oscillation_counter, inlet_near_closed_counter, max_slope_hold>>

\* self._write_to_outlet(f"S1 {clamped_pos:.2f}")
AdaptiveWriteS1 ==
    /\ adaptive.pc = "s1"
    /\ adaptive' = [adaptive EXCEPT !.pc = "d1"]
    /\ wire' = Frame("outlet", "S1", adaptive.pos, "adaptive")
    /\ UNCHANGED <<link_lost, rpm, reportVars,
                   transport, ctlVars, spVars, readVars, adaptVars, poller, calls, gui, seq,
                   appVars, estop_trace>>

\* self._write_to_outlet("D1"); time.sleep(3.0)
AdaptiveWriteD1 ==
    /\ adaptive.pc = "d1"
    /\ adaptive' = AdaptiveIdle
    /\ wire' = Frame("outlet", "D1", 0, "adaptive")
    /\ UNCHANGED <<link_lost, rpm, reportVars,
                   transport, ctlVars, spVars, readVars, adaptVars, poller, calls, gui, seq,
                   appVars, estop_trace>>


----------------------------------------------------------------------------
\* Task records at rest

Calls == 1..MaxCalls
\* no set_pressure call in the slot.  outlet, inlet: what the call under way has
\* written so far (any outlet frame; its last inlet command).  i: the index of
\* the loop under way; high: the call found the pressure above 75% of full
\* scale; ramped: the outlet positions its ramps have written; held: the
\* seconds its two holds have slept.
CallIdle ==
    [pc |-> "idle", pressure |-> 0, predicted |-> None, by |-> "none", result |-> "none",
     outlet |-> FALSE, inlet |-> "none", i |-> 0, high |-> FALSE, ramped |-> <<>>,
     held |-> 0]
GuiIdle == [pc |-> "idle", after |-> "none", frame |-> NoFrame]
\* run_calibration before it is started.  stable / out_of_tolerance: the two
\* timers are set; is_stable, stable_pressure, accepted: the last pass's locals;
\* good_run: consecutive stable in-tolerance passes (up to 2)
SeqIdle ==
    [pc |-> "idle", todo |-> <<>>, sp |-> 0, count |-> 0, slot |-> None,
     stable |-> FALSE, out_of_tolerance |-> FALSE, iterated |-> FALSE,
     readings |-> FALSE, is_stable |-> FALSE, stable_pressure |-> None,
     accepted |-> FALSE, good_run |-> 0, dut_readings |-> <<>>]
\* data_storage with no row (None stands for NaN in a row)
\* ManualCalFrame.__init__: no target, nothing learned, not stable
NoTarget == [target |-> None, learned |-> FALSE, last_stability_state |-> FALSE]
NoRow == [Setpoint_Torr |-> None, Device_Pressure_Torr |-> <<>>]

\* No results analysed or logged yet
NoReport == cal_results_df = <<>> /\ dut_pass_status = "none" /\ generated_certs = FALSE
NoTrace == [phase |-> "none", mode |-> "none", held |-> FALSE, inletC |-> FALSE,
            outletC |-> FALSE]
TurboReady == [is_on |-> TRUE, at_speed |-> TRUE, standby |-> FALSE,
               decelerating |-> FALSE, accelerating |-> FALSE]

\* The serial lines (_write_to_inlet, _query_inlet, _write_to_outlet,
\* _query_outlet).  Each request of a query carries a number, and the device's
\* reply carries the number of the request it answers.

Endpoints == {"inlet", "outlet"}
\* the threads that use the lines: the poller, the adaptive loop, a set_pressure call
TransportThreads == {"poller", "adaptive", "set_pressure"}
MaxRequests == 3

\* connect(): both locks free, nothing sent, nothing received, no query under way
IdleTransport ==
    [lock |-> [ep \in Endpoints |-> "none"],
     pending |-> [ep \in Endpoints |-> <<>>],
     buffer |-> [ep \in Endpoints |-> <<>>],
     issued |-> 0,
     op |-> [t \in TransportThreads |-> [pc |-> "idle", ep |-> "none", id |-> 0,
                                          reply |-> None]]]

\* _query_*: with lock: reset_input_buffer(); write(command); flush()
TransportQueryBegin(t, ep, cmd) ==
    /\ transport.op[t].pc = "idle"
    /\ transport.lock[ep] = "none"
    /\ transport.issued < MaxRequests
    /\ LET id == transport.issued + 1
       IN  transport' = [transport EXCEPT
                            !.lock[ep] = t,
                            !.buffer[ep] = <<>>,
                            !.pending[ep] = Append(@, id),
                            !.issued = id,
                            !.op[t] = [pc |-> "read", ep |-> ep, id |-> id,
                                       reply |-> None]]
    /\ wire' = Frame(ep, cmd, 0, t)
    /\ UNCHANGED <<link_lost, rpm, reportVars,
                   ctlVars, spVars, readVars, adaptVars, taskVars, appVars, estop_trace>>

\* Faulty variant of TransportQueryRead: a read that times out returns without
\* freeing the lock
TransportQueryReadKeepsLock(t, timeout) ==
    /\ transport.op[t].pc = "read"
    /\ LET ep == transport.op[t].ep
       IN  /\ transport.buffer[ep] # <<>> \/ timeout
           /\ transport' = [transport EXCEPT
                               !.lock[ep] = IF transport.buffer[ep] = <<>> THEN @ ELSE "none",
                               !.buffer[ep] = IF @ = <<>> THEN @ ELSE Tail(@),
                               !.op[t].pc = "idle",
                               !.op[t].reply =
                                   IF transport.buffer[ep] = <<>> THEN None
                                   ELSE Head(transport.buffer[ep])]
    /\ wire' = NoFrame
    /\ UNCHANGED <<link_lost, rpm, reportVars,
                   ctlVars, spVars, readVars, adaptVars, taskVars, appVars, estop_trace>>

\* _query_*: read_until(b'\r') returns the first line in the input buffer, or,
\* after the port's 1 s timeout, nothing; the with block ends and the lock is free
TransportQueryRead(t, timeout) ==
    /\ transport.op[t].pc = "read"
    /\ LET ep == transport.op[t].ep
       IN  /\ transport.buffer[ep] # <<>> \/ timeout
           /\ transport' = [transport EXCEPT
                               !.lock[ep] = "none",
                               !.buffer[ep] = IF @ = <<>> THEN @ ELSE Tail(@),
                               !.op[t].pc = "idle",
                               !.op[t].reply =
                                   IF transport.buffer[ep] = <<>> THEN None
                                   ELSE Head(transport.buffer[ep])]
    /\ wire' = NoFrame
    /\ UNCHANGED <<link_lost, rpm, reportVars,
                   ctlVars, spVars, readVars, adaptVars, taskVars, appVars, estop_trace>>

\* _write_to_*: with lock: write(command); flush()
TransportWrite(t, ep, cmd) ==
    /\ transport.op[t].pc = "idle"
    /\ transport.lock[ep] = "none"
    /\ wire' = Frame(ep, cmd, 0, t)
    /\ wire' # wire
    /\ UNCHANGED <<link_lost, rpm, reportVars,
                   ctlVars, spVars, readVars, adaptVars, taskVars, appVars, estop_trace,
                   transport>>

\* The port of line ep raises serial.SerialException (no SerialTimeoutException)
\* in thread t's write or read: the with block frees the lock, no helper and no
\* loop catches the exception, and the thread ends.
TransportPortError(t, ep) ==
    /\ \/ transport.op[t].pc = "read" /\ transport.op[t].ep = ep
       \/ transport.op[t].pc = "idle" /\ transport.lock[ep] = "none"
    /\ transport' = [transport EXCEPT !.lock[ep] = "none", !.op[t].pc = "dead"]
    /\ wire' = NoFrame
    /\ UNCHANGED <<link_lost, rpm, reportVars,
                   ctlVars, spVars, readVars, adaptVars, taskVars, appVars, estop_trace>>

\* the controller on line ep answers the oldest request it has not answered
DeviceReply(ep) ==
    /\ transport.pending[ep] # <<>>
    /\ transport' = [transport EXCEPT
                        !.pending[ep] = Tail(@),
                        !.buffer[ep] = Append(@, Head(transport.pending[ep]))]
    /\ wire' = NoFrame
    /\ UNCHANGED <<link_lost, rpm, reportVars,
                   ctlVars, spVars, readVars, adaptVars, taskVars, appVars, estop_trace>>

\* The controller as __init__ leaves it, started, with the window connected
ConstructedController ==
    /\ e_stop = FALSE /\ stop_event = FALSE /\ polling_thread = TRUE
    /\ hold_all_valves = FALSE /\ hold_outlet_valve = FALSE
    /\ manual_override_active = FALSE
    /\ system_setpoint = 0 /\ previous_setpoint = 0
    /\ pressure_history = <<>> /\ current_pressure = None
    /\ inlet_valve_pos = 0 /\ outlet_valve_pos = 0 /\ inlet_pos_history = <<>>
    /\ oscillation_counter = 0 /\ oscillation_cooldown = FALSE
    /\ inlet_oscillation_counter = 0 /\ inlet_near_closed_counter = 0
    /\ max_slope_hold = FALSE /\ inlet_high_blind_active = FALSE
    /\ last_log_reason = ""

TasksAtRest ==
    /\ poller = "run" /\ adaptive = AdaptiveIdle
    /\ calls = [c \in Calls |-> CallIdle]
    /\ gui = GuiIdle /\ seq = SeqIdle
    /\ wire = NoFrame /\ transport = IdleTransport /\ estop_trace = NoTrace
    /\ NoReport /\ link_lost = FALSE

WindowConnected ==
    /\ is_calibrating = FALSE /\ is_in_manual_mode = FALSE
    /\ learned_outlet_positions = <<>>
    /\ active_duts = <<>> /\ completed_duts = {} /\ data_storage = NoRow
       /\ manual_learn = NoTarget /\ is_pumping_down = FALSE
    /\ status_flags = TurboReady /\ rpm = nominal_rpm_threshold
    /\ e_stop_button = TRUE /\ resume_button = FALSE /\ set_pressure_button = TRUE

----------------------------------------------------------------------------
\* The poller and the read helpers

\* get_valve_positions: R6 on both lines; i, o are the parsed replies (None: no
\* reply or no number in it)
GetValvePositions(i, o) ==
    /\ inlet_valve_pos' = IF i # None THEN i ELSE inlet_valve_pos
    /\ inlet_pos_history' = IF i # None THEN Push(inlet_pos_history, i)
                            ELSE inlet_pos_history
    /\ outlet_valve_pos' = IF o # None THEN o ELSE outlet_valve_pos

\* One cycle of _run_polling_loop; p is what get_pressure returns
Poll(p, i, o) ==
    /\ poller = "run"
    /\ ~stop_event
    /\ current_pressure' = IF p # None THEN p ELSE current_pressure
    /\ pressure_history' = IF p # None THEN Push(pressure_history, p)
                           ELSE pressure_history
    /\ GetValvePositions(i, o)
    /\ wire' = NoFrame
    /\ UNCHANGED <<link_lost, rpm, reportVars,
                   transport, ctlVars, spVars, adaptVars, taskVars, appVars, estop_trace>>

----------------------------------------------------------------------------
\* set_pressure(pressure, predicted_outlet_pos), one invocation per slot c

\* set_pressure returns to its caller: the one-shot threads end, the pump-to-vacuum
\* thread still has its last statement to run
Returned(c, how) ==
    [calls EXCEPT ![c] = [CallIdle EXCEPT !.result = how,
                                          !.pc = IF calls[c].by = "pump" THEN "pv_done"
                                                 ELSE "idle"]]
Goto(c, pc) == [calls EXCEPT ![c].pc = pc]
\* the call goes on to pc having written cmd to line ep
GotoWriting(c, pc, ep, cmd) ==
    [calls EXCEPT ![c].pc = pc,
                  ![c].outlet = @ \/ ep = "outlet",
                  ![c].inlet = IF ep = "inlet" THEN cmd ELSE @]

\* "Moving from zero, dynamic initial outlet"
InitialOutletPosition(pressure) ==
    IF pressure * 100 >= 90 * full_scale_pressure THEN 240
    ELSE IF pressure * 100 > 40 * full_scale_pressure THEN 280
    ELSE IF pressure * 100 > 10 * full_scale_pressure THEN 400
    ELSE 700

\* inlet_pressure_sp_percent, in tenths of a percent
InletSetpointPercent(pressure) == (pressure * 1000) \div full_scale_pressure

\* Faulty variant of SetPressureEntry: the e-stop check of line 314 is missing
SetPressureEntryUnchecked(c) ==
    /\ calls[c].pc = "entry"
    /\ calls' = Goto(c, "update")
    /\ wire' = NoFrame
    /\ UNCHANGED <<link_lost, rpm, reportVars,
                   transport, ctlVars, spVars, readVars, adaptVars, poller, adaptive,
                   gui, seq,
                   appVars, estop_trace>>

\* if self.e_stop_event.is_set(): return
SetPressureEntry(c) ==
    /\ calls[c].pc = "entry"
    /\ calls' = IF e_stop THEN Returned(c, "rejected") ELSE Goto(c, "update")
    /\ wire' = NoFrame
    /\ UNCHANGED <<link_lost, rpm, reportVars,
                   transport, ctlVars, spVars, readVars, adaptVars, poller, adaptive,
                   gui, seq,
                   appVars, estop_trace>>

\* hold_all_valves.clear(); previous_setpoint = system_setpoint; system_setpoint = pressure
SetPressureUpdate(c) ==
    /\ calls[c].pc = "update"
    /\ hold_all_valves' = FALSE
    /\ previous_setpoint' = system_setpoint
    /\ system_setpoint' = calls[c].pressure
    /\ calls' = Goto(c, "clear")
    /\ wire' = NoFrame
    /\ UNCHANGED <<link_lost, rpm, reportVars,
                   transport, e_stop, stop_event, polling_thread, hold_outlet_valve,
                   manual_override_active, readVars, adaptVars, poller, adaptive, gui,
                   seq, appVars, estop_trace>>

\* pressure_history.clear(); last_log_reason = ""; max_slope_hold = False;
\* oscillation_cooldown = False
SetPressureClear(c) ==
    /\ calls[c].pc = "clear"
    /\ pressure_history' = <<>>
    /\ last_log_reason' = ""
    /\ max_slope_hold' = FALSE
    /\ oscillation_cooldown' = FALSE
    /\ calls' = Goto(c, IF calls[c].pressure = 0 THEN "z_close" ELSE "p_outlet")
    /\ wire' = NoFrame
    /\ UNCHANGED <<link_lost, rpm, reportVars,
                   transport, ctlVars, spVars, current_pressure, inlet_valve_pos,
                   outlet_valve_pos,
                   inlet_pos_history, oscillation_counter, inlet_oscillation_counter,
                   inlet_near_closed_counter, inlet_high_blind_active, poller, adaptive,
                   gui, seq, appVars, estop_trace>>

\* pressure == 0: self._write_to_inlet("C")
SetPressureInletClose(c) ==
    /\ calls[c].pc = "z_close"
    /\ calls' = GotoWriting(c, "z_wait", "inlet", "C")
    /\ wire' = Frame("inlet", "C", 0, "set_pressure")
    /\ UNCHANGED <<link_lost, rpm, reportVars,
                   transport, ctlVars, spVars, readVars, adaptVars, poller, adaptive,
                   gui, seq,
                   appVars, estop_trace>>

\* Faulty variant of SetPressureAwaitClosed: on the timeout the outlet is opened
\* before the call returns
SetPressureAwaitClosedOpensOutlet(c, timeout) ==
    /\ calls[c].pc = "z_wait"
    /\ IF inlet_valve_pos # None /\ inlet_valve_pos > 999
       THEN calls' = Goto(c, "z_read") /\ wire' = NoFrame
       ELSE /\ timeout /\ calls' = Returned(c, "timeout")
            /\ wire' = Frame("outlet", "S1", 1000, "set_pressure")
    /\ UNCHANGED <<link_lost, rpm, reportVars,
                   transport, ctlVars, spVars, readVars, adaptVars, poller, adaptive,
                   gui, seq,
                   appVars, estop_trace>>

\* Faulty variant of SetPressureAwaitClosed: the call goes on without having
\* seen the inlet closed
SetPressureAwaitClosedUnchecked(c, timeout) ==
    /\ calls[c].pc = "z_wait"
    /\ calls' = Goto(c, "z_read")
    /\ wire' = NoFrame
    /\ UNCHANGED <<link_lost, rpm, reportVars,
                   transport, ctlVars, spVars, readVars, adaptVars, poller, adaptive,
                   gui, seq,
                   appVars, estop_trace>>

\* The 15 s wait for inlet_valve_pos > 99.9; timeout: time.time() >= timeout
SetPressureAwaitClosed(c, timeout) ==
    /\ calls[c].pc = "z_wait"
    /\ IF inlet_valve_pos # None /\ inlet_valve_pos > 999
       THEN calls' = Goto(c, "z_read")
       ELSE timeout /\ calls' = Returned(c, "timeout")
    /\ wire' = NoFrame
    /\ UNCHANGED <<link_lost, rpm, reportVars,
                   transport, ctlVars, spVars, readVars, adaptVars, poller, adaptive,
                   gui, seq,
                   appVars, estop_trace>>

\* current_p = self.get_pressure(); p is its result
SetPressureReadPressure(c, p) ==
    /\ calls[c].pc = "z_read"
    /\ calls' = IF p # None /\ p * 100 > full_scale_pressure * 75
                THEN [calls EXCEPT ![c].pc = "ramp", ![c].high = TRUE]
                ELSE Goto(c, "z_open")
    /\ wire' = Frame("inlet", "R5", 0, "set_pressure")
    /\ UNCHANGED <<link_lost, rpm, reportVars,
                   transport, ctlVars, spVars, readVars, adaptVars, poller, adaptive,
                   gui, seq,
                   appVars, estop_trace>>

\* The first ramp, for i in range(10): break on e-stop, else S1 (i + 1) * 2.0
SetPressureRamp(c) ==
    /\ calls[c].pc = "ramp"
    /\ IF calls[c].i < 10 /\ ~e_stop
       THEN LET pos == (calls[c].i + 1) * 20
            IN  /\ calls' = [GotoWriting(c, "ramp_d1", "outlet", "S1")
                                EXCEPT ![c].ramped = Append(@, pos)]
                /\ wire' = Frame("outlet", "S1", pos, "set_pressure")
       ELSE /\ calls' = [calls EXCEPT ![c].pc = "hold_if", ![c].i = 0]
            /\ wire' = NoFrame
    /\ UNCHANGED <<link_lost, rpm, reportVars,
                   transport, ctlVars, spVars, readVars, adaptVars, poller, adaptive,
                   gui, seq, appVars, estop_trace>>

\* D1 of a step of the first ramp; time.sleep(1.0)
SetPressureRampD1(c) ==
    /\ calls[c].pc = "ramp_d1"
    /\ calls' = [calls EXCEPT ![c].pc = "ramp", ![c].i = @ + 1]
    /\ wire' = Frame("outlet", "D1", 0, "set_pressure")
    /\ UNCHANGED <<link_lost, rpm, reportVars,
                   transport, ctlVars, spVars, readVars, adaptVars, poller, adaptive,
                   gui, seq, appVars, estop_trace>>

\* After the first ramp: if not e_stop, go on to the 5 s hold; else to the
\* final check before S1 100.0
SetPressureHoldIf(c) ==
    /\ calls[c].pc = "hold_if"
    /\ calls' = Goto(c, IF e_stop THEN "z_open" ELSE "hold")
    /\ wire' = NoFrame
    /\ UNCHANGED <<link_lost, rpm, reportVars,
                   transport, ctlVars, spVars, readVars, adaptVars, poller, adaptive,
                   gui, seq, appVars, estop_trace>>

\* The hold, for _ in range(5): break on e-stop, else time.sleep(1.0)
SetPressureHold(c) ==
    /\ calls[c].pc = "hold"
    /\ calls' = IF calls[c].i < 5 /\ ~e_stop
                THEN [calls EXCEPT ![c].i = @ + 1, ![c].held = @ + 1]
                ELSE [calls EXCEPT ![c].pc = "ramp2_if", ![c].i = 0]
    /\ wire' = NoFrame
    /\ UNCHANGED <<link_lost, rpm, reportVars,
                   transport, ctlVars, spVars, readVars, adaptVars, poller, adaptive,
                   gui, seq, appVars, estop_trace>>

\* After the hold: if not e_stop, the second ramp; else the check before the
\* 1 s hold
SetPressureRamp2If(c) ==
    /\ calls[c].pc = "ramp2_if"
    /\ calls' = Goto(c, IF e_stop THEN "hold2_if" ELSE "ramp2")
    /\ wire' = NoFrame
    /\ UNCHANGED <<link_lost, rpm, reportVars,
                   transport, ctlVars, spVars, readVars, adaptVars, poller, adaptive,
                   gui, seq, appVars, estop_trace>>

\* The second ramp, for i in range(10): break on e-stop, else
\* S1 20.0 + (i + 1) * 0.5
SetPressureRamp2(c) ==
    /\ calls[c].pc = "ramp2"
    /\ IF calls[c].i < 10 /\ ~e_stop
       THEN LET pos == 200 + (calls[c].i + 1) * 5
            IN  /\ calls' = [GotoWriting(c, "ramp2_d1", "outlet", "S1")
                                EXCEPT ![c].ramped = Append(@, pos)]
                /\ wire' = Frame("outlet", "S1", pos, "set_pressure")
       ELSE /\ calls' = [calls EXCEPT ![c].pc = "hold2_if", ![c].i = 0]
            /\ wire' = NoFrame
    /\ UNCHANGED <<link_lost, rpm, reportVars,
                   transport, ctlVars, spVars, readVars, adaptVars, poller, adaptive,
                   gui, seq, appVars, estop_trace>>

\* D1 of a step of the second ramp; time.sleep(1.0)
SetPressureRamp2D1(c) ==
    /\ calls[c].pc = "ramp2_d1"
    /\ calls' = [calls EXCEPT ![c].pc = "ramp2", ![c].i = @ + 1]
    /\ wire' = Frame("outlet", "D1", 0, "set_pressure")
    /\ UNCHANGED <<link_lost, rpm, reportVars,
                   transport, ctlVars, spVars, readVars, adaptVars, poller, adaptive,
                   gui, seq, appVars, estop_trace>>

\* After the second ramp: if not e_stop, time.sleep(1.0); then the final check
SetPressureHold2(c) ==
    /\ calls[c].pc = "hold2_if"
    /\ calls' = [calls EXCEPT ![c].pc = "z_open",
                              ![c].held = IF e_stop THEN @ ELSE @ + 1]
    /\ wire' = NoFrame
    /\ UNCHANGED <<link_lost, rpm, reportVars,
                   transport, ctlVars, spVars, readVars, adaptVars, poller, adaptive,
                   gui, seq, appVars, estop_trace>>

\* if not e_stop: self._write_to_outlet("S1 100.0")
SetPressureOpenOutlet(c) ==
    /\ calls[c].pc = "z_open"
    /\ IF e_stop
       THEN calls' = Returned(c, "stopped") /\ wire' = NoFrame
       ELSE calls' = GotoWriting(c, "z_open_d1", "outlet", "S1")
            /\ wire' = Frame("outlet", "S1", 1000, "set_pressure")
    /\ UNCHANGED <<link_lost, rpm, reportVars,
                   transport, ctlVars, spVars, readVars, adaptVars, poller, adaptive,
                   gui, seq,
                   appVars, estop_trace>>

\* self._write_to_outlet("D1") after S1 100.0
SetPressureOpenOutletD1(c) ==
    /\ calls[c].pc = "z_open_d1"
    /\ calls' = Returned(c, "done")
    /\ wire' = Frame("outlet", "D1", 0, "set_pressure")
    /\ UNCHANGED <<link_lost, rpm, reportVars,
                   transport, ctlVars, spVars, readVars, adaptVars, poller, adaptive,
                   gui, seq,
                   appVars, estop_trace>>


\* Faulty variant of SetPressureOutlet: without a prediction the from-zero table
\* is applied whatever the previous setpoint was
SetPressureOutletAlwaysMoves(c) ==
    /\ calls[c].pc = "p_outlet"
    /\ calls' = GotoWriting(c, "p_outlet_d1", "outlet", "S1")
    /\ wire' = Frame("outlet", "S1",
                     IF calls[c].predicted # None THEN calls[c].predicted
                     ELSE InitialOutletPosition(calls[c].pressure), "set_pressure")
    /\ UNCHANGED <<link_lost, rpm, reportVars,
                   transport, ctlVars, spVars, readVars, adaptVars, poller, adaptive,
                   gui, seq,
                   appVars, estop_trace>>

\* pressure > 0: the initial outlet position (predicted, or the from-zero table,
\* or none) and its S1
SetPressureOutlet(c) ==
    /\ calls[c].pc = "p_outlet"
    /\ IF calls[c].predicted # None
       THEN /\ calls' = GotoWriting(c, "p_outlet_d1", "outlet", "S1")
            /\ wire' = Frame("outlet", "S1", calls[c].predicted, "set_pressure")
       ELSE IF previous_setpoint = 0
       THEN /\ calls' = GotoWriting(c, "p_outlet_d1", "outlet", "S1")
            /\ wire' = Frame("outlet", "S1", InitialOutletPosition(calls[c].pressure),
                             "set_pressure")
       ELSE /\ calls' = Goto(c, "p_inlet")
            /\ wire' = NoFrame
    /\ UNCHANGED <<link_lost, rpm, reportVars,
                   transport, ctlVars, spVars, readVars, adaptVars, poller, adaptive,
                   gui, seq,
                   appVars, estop_trace>>

\* the D1 after it; then: if previous_setpoint == 0, inlet_high_blind_active = True
SetPressureOutletD1(c) ==
    /\ calls[c].pc = "p_outlet_d1"
    /\ inlet_high_blind_active' = (inlet_high_blind_active \/ previous_setpoint = 0)
    /\ calls' = GotoWriting(c, "p_settle", "outlet", "D1")
    /\ wire' = Frame("outlet", "D1", 0, "set_pressure")
    /\ UNCHANGED <<link_lost, rpm, reportVars,
                   transport, ctlVars, spVars, readVars, oscillation_counter,
                   oscillation_cooldown,
                   inlet_oscillation_counter, inlet_near_closed_counter, max_slope_hold,
                   last_log_reason, poller, adaptive, gui, seq, appVars, estop_trace>>

\* outlet_was_moved: if e_stop: return; time.sleep(3.0)
SetPressureSettle(c) ==
    /\ calls[c].pc = "p_settle"
    /\ calls' = IF e_stop THEN Returned(c, "stopped") ELSE Goto(c, "p_repoll")
    /\ wire' = NoFrame
    /\ UNCHANGED <<link_lost, rpm, reportVars,
                   transport, ctlVars, spVars, readVars, adaptVars, poller, adaptive,
                   gui, seq,
                   appVars, estop_trace>>

\* after the sleep: if e_stop: return; self.get_valve_positions()
SetPressureRepoll(c, i, o) ==
    /\ calls[c].pc = "p_repoll"
    /\ IF e_stop
       THEN /\ calls' = Returned(c, "stopped")
            /\ UNCHANGED <<inlet_valve_pos, inlet_pos_history, outlet_valve_pos>>
       ELSE /\ calls' = Goto(c, "p_inlet")
            /\ GetValvePositions(i, o)
    /\ wire' = NoFrame
    /\ UNCHANGED <<link_lost, rpm, reportVars,
                   transport, ctlVars, spVars, pressure_history, current_pressure,
                   adaptVars,
                   poller, adaptive, gui, seq, appVars, estop_trace>>

\* if not e_stop: self._write_to_inlet(f"S1 {inlet_pressure_sp_percent:.2f}")
SetPressureInlet(c) ==
    /\ calls[c].pc = "p_inlet"
    /\ IF e_stop
       THEN calls' = Returned(c, "stopped") /\ wire' = NoFrame
       ELSE calls' = GotoWriting(c, "p_inlet_d1", "inlet", "S1")
            /\ wire' = Frame("inlet", "S1", InletSetpointPercent(calls[c].pressure),
                             "set_pressure")
    /\ UNCHANGED <<link_lost, rpm, reportVars,
                   transport, ctlVars, spVars, readVars, adaptVars, poller, adaptive,
                   gui, seq,
                   appVars, estop_trace>>

\* self._write_to_inlet("D1")
SetPressureInletD1(c) ==
    /\ calls[c].pc = "p_inlet_d1"
    /\ calls' = Returned(c, "done")
    /\ wire' = Frame("inlet", "D1", 0, "set_pressure")
    /\ UNCHANGED <<link_lost, rpm, reportVars,
                   transport, ctlVars, spVars, readVars, adaptVars, poller, adaptive,
                   gui, seq,
                   appVars, estop_trace>>

----------------------------------------------------------------------------
\* The learned outlet position store

SetMin(S) == CHOOSE x \in S : \A y \in S : x <= y
SetMax(S) == CHOOSE x \in S : \A y \in S : x >= y

\* _predict_outlet_position(target_sp): the averaged learned position, linearly
\* interpolated (or extrapolated) between the two nearest learned setpoints
PredictOutletPosition(store, target) ==
    LET known == {sp \in DOMAIN store : Len(store[sp]) > 0}
        avg(sp) == SumSeq(store[sp]) \div Len(store[sp])
        nearest == SetMin({sp \in known :
                              \A q \in known : Abs(sp - target) <= Abs(q - target)})
        lo == SetMin(known)
        hi == SetMax(known)
        sp1 == IF target < lo THEN lo
               ELSE IF target > hi THEN SetMax(known \ {hi})
               ELSE SetMax({sp \in known : sp < target})
        sp2 == IF target < lo THEN SetMin(known \ {lo})
               ELSE IF target > hi THEN hi
               ELSE SetMin({sp \in known : sp > target})
    IN  IF known = {} THEN None
        ELSE IF target \in known THEN avg(target)
        ELSE IF Cardinality(known) < 2 THEN avg(nearest)
        ELSE avg(sp1) + ((target - sp1) * (avg(sp2) - avg(sp1))) \div (sp2 - sp1)


----------------------------------------------------------------------------
\* The window (CalibrationGUI): handlers run one at a time on the window's thread

\* Faulty variant of EStopAction: outside calibration and manual mode it only sets
\* the event and skips _shutdown_system
EStopActionIdleSkipsShutdown ==
    /\ gui.pc = "idle"
    /\ e_stop_button
    /\ e_stop' = TRUE
    /\ is_calibrating' = FALSE
    /\ is_in_manual_mode' = FALSE
    /\ set_pressure_button' = (set_pressure_button \/ is_in_manual_mode)
    /\ gui' = [GuiIdle EXCEPT !.pc = IF is_calibrating \/ is_in_manual_mode
                                     THEN "cv_hold" ELSE "cv_return",
                              !.after = IF is_in_manual_mode THEN "estop_standby"
                                        ELSE "estop_shutdown"]
    /\ estop_trace' = [NoTrace EXCEPT !.phase = "running",
                          !.mode = IF is_in_manual_mode THEN "manual"
                                   ELSE IF is_calibrating THEN "auto" ELSE "idle"]
    /\ wire' = NoFrame
    /\ UNCHANGED <<link_lost, rpm, reportVars,
                   transport, stop_event, polling_thread, hold_all_valves,
                   hold_outlet_valve,
                   manual_override_active, spVars, readVars, adaptVars, poller, adaptive,
                   calls, seq, learned_outlet_positions, active_duts, completed_duts,
                   data_storage, manual_learn,
                   is_pumping_down, status_flags, e_stop_button,
                   resume_button>>

\* e_stop_action up to its call of close_valves.  In manual mode it first leaves
\* manual mode (toggle_manual_mode -> _enter_standby_state -> close_valves), then
\* runs _shutdown_system; otherwise it runs _shutdown_system at once.
EStopAction ==
    /\ gui.pc = "idle"
    /\ e_stop_button
    /\ e_stop' = TRUE
    /\ is_calibrating' = FALSE
    /\ is_in_manual_mode' = FALSE
    /\ set_pressure_button' = (set_pressure_button \/ is_in_manual_mode)
    /\ gui' = [GuiIdle EXCEPT !.pc = "cv_hold",
                              !.after = IF is_in_manual_mode THEN "estop_standby"
                                        ELSE "estop_shutdown"]
    /\ estop_trace' = [NoTrace EXCEPT !.phase = "running",
                          !.mode = IF is_in_manual_mode THEN "manual"
                                   ELSE IF is_calibrating THEN "auto" ELSE "idle"]
    /\ wire' = NoFrame
    /\ UNCHANGED <<link_lost, rpm, reportVars,
                   transport, stop_event, polling_thread, hold_all_valves,
                   hold_outlet_valve,
                   manual_override_active, spVars, readVars, adaptVars, poller, adaptive,
                   calls, seq, learned_outlet_positions, active_duts, completed_duts,
                   data_storage, manual_learn,
                   is_pumping_down, status_flags, e_stop_button,
                   resume_button>>

\* close_valves: self.hold_all_valves.set()
CloseValvesHold ==
    /\ gui.pc = "cv_hold"
    /\ hold_all_valves' = TRUE
    /\ gui' = [gui EXCEPT !.pc = "cv_inlet"]
    /\ estop_trace' = IF estop_trace.phase = "running"
                      THEN [estop_trace EXCEPT !.held = TRUE] ELSE estop_trace
    /\ wire' = NoFrame
    /\ UNCHANGED <<link_lost, rpm, reportVars,
                   transport, e_stop, stop_event, polling_thread, hold_outlet_valve,
                   manual_override_active, spVars, readVars, adaptVars, poller, adaptive,
                   calls, seq, appVars>>

\* close_valves: self._write_to_inlet("C")
CloseValvesInlet ==
    /\ gui.pc = "cv_inlet"
    /\ gui' = [gui EXCEPT !.pc = "cv_outlet"]
    /\ estop_trace' = IF estop_trace.phase = "running"
                      THEN [estop_trace EXCEPT !.inletC = TRUE] ELSE estop_trace
    /\ wire' = Frame("inlet", "C", 0, "close_valves")
    /\ UNCHANGED <<link_lost, rpm, reportVars,
                   transport, ctlVars, spVars, readVars, adaptVars, poller, adaptive,
                   calls, seq,
                   appVars>>

\* close_valves: self._write_to_outlet("C"); time.sleep(0.5)
CloseValvesOutlet ==
    /\ gui.pc = "cv_outlet"
    /\ gui' = [gui EXCEPT !.pc = "cv_return"]
    /\ estop_trace' = IF estop_trace.phase = "running"
                      THEN [estop_trace EXCEPT !.outletC = TRUE] ELSE estop_trace
    /\ wire' = Frame("outlet", "C", 0, "close_valves")
    /\ UNCHANGED <<link_lost, rpm, reportVars,
                   transport, ctlVars, spVars, readVars, adaptVars, poller, adaptive,
                   calls, seq,
                   appVars>>

\* What follows close_valves in its caller: _enter_standby_state sends SBY (and,
\* inside e_stop_action, _shutdown_system comes next); _shutdown_system sends
\* TMPOFF, and e_stop_action ends by enabling Resume.
AfterCloseValves ==
    /\ gui.pc = "cv_return"
    /\ IF gui.after = "estop_standby"
       THEN /\ gui' = [gui EXCEPT !.pc = "cv_hold", !.after = "estop_shutdown"]
            /\ UNCHANGED <<resume_button, estop_trace>>
       ELSE IF gui.after = "estop_shutdown"
       THEN /\ gui' = GuiIdle
            /\ resume_button' = TRUE
            /\ estop_trace' = [estop_trace EXCEPT !.phase = "done"]
       ELSE /\ gui' = GuiIdle
            /\ UNCHANGED <<resume_button, estop_trace>>
    /\ wire' = NoFrame
    /\ UNCHANGED <<link_lost, rpm, reportVars,
                   transport, ctlVars, spVars, readVars, adaptVars, poller, adaptive,
                   calls, seq,
                   is_calibrating, is_in_manual_mode, learned_outlet_positions,
                   active_duts, completed_duts, data_storage, manual_learn,
                   is_pumping_down,
                   status_flags, e_stop_button, set_pressure_button>>

\* resume_from_estop: clear the event; state_controller.start(), which starts the
\* two threads only if self._polling_thread is None
ResumeFromEStop ==
    /\ gui.pc = "idle"
    /\ resume_button
    /\ e_stop' = FALSE
    /\ resume_button' = FALSE
    /\ IF ~polling_thread
       THEN /\ stop_event' = FALSE
            /\ polling_thread' = TRUE
            /\ poller' = "run"
            /\ adaptive' = AdaptiveIdle
       ELSE UNCHANGED <<stop_event, polling_thread, poller, adaptive>>
    /\ wire' = NoFrame
    /\ UNCHANGED <<link_lost, rpm, reportVars, transport, hold_all_valves, hold_outlet_valve,
                   manual_override_active, spVars,
                   readVars, adaptVars, calls, gui, seq, is_calibrating,
                   is_in_manual_mode, learned_outlet_positions, active_duts,
                   completed_duts, data_storage, manual_learn,
                   is_pumping_down, status_flags,
                   e_stop_button, set_pressure_button, estop_trace>>


\* _activate_manual_override_cooldown (the 15 s timer is ManualOverrideTimeout)
\* _fine/_coarse_bump_outlet_open/_closed: delta is +-0.1 or +-1.0 percent
ManualOutletBump(delta) ==
    /\ gui.pc = "idle"
    /\ manual_override_active' = TRUE
    /\ IF outlet_valve_pos # None
       THEN LET new_pos == Max(0, Min(1000, outlet_valve_pos + delta))
            IN  /\ gui' = [GuiIdle EXCEPT !.pc = "second",
                                          !.frame = Frame("outlet", "D1", 0, "manual")]
                /\ wire' = Frame("outlet", "S1", new_pos, "manual")
       ELSE gui' = gui /\ wire' = NoFrame
    /\ UNCHANGED <<link_lost, rpm, reportVars,
                   transport, e_stop, stop_event, polling_thread, hold_all_valves,
                   hold_outlet_valve, spVars, readVars, adaptVars, poller, adaptive,
                   calls, seq, appVars, estop_trace>>

\* _close_outlet_valve
ManualOutletClose ==
    /\ gui.pc = "idle"
    /\ manual_override_active' = TRUE
    /\ wire' = Frame("outlet", "C", 0, "manual")
    /\ UNCHANGED <<link_lost, rpm, reportVars,
                   transport, e_stop, stop_event, polling_thread, hold_all_valves,
                   hold_outlet_valve, spVars, readVars, adaptVars, taskVars, appVars,
                   estop_trace>>

\* _open_outlet_valve_confirmed (the operator answered yes)
ManualOutletOpen ==
    /\ gui.pc = "idle"
    /\ gui' = [GuiIdle EXCEPT !.pc = "second",
                              !.frame = Frame("outlet", "D1", 0, "manual")]
    /\ wire' = Frame("outlet", "S1", 1000, "manual")
    /\ UNCHANGED <<link_lost, rpm, reportVars,
                   transport, ctlVars, spVars, readVars, adaptVars, poller, adaptive,
                   calls, seq,
                   appVars, estop_trace>>

\* send_manual_outlet_command: the text of the entry goes to the outlet as typed
SendManualOutletCommand(cmd, val) ==
    /\ gui.pc = "idle"
    /\ manual_override_active' = TRUE
    /\ wire' = Frame("outlet", cmd, val, "manual")
    /\ UNCHANGED <<link_lost, rpm, reportVars,
                   transport, e_stop, stop_event, polling_thread, hold_all_valves,
                   hold_outlet_valve, spVars, readVars, adaptVars, taskVars, appVars,
                   estop_trace>>

\* _fine/_coarse_bump_inlet_open/_closed -> _bump_inlet_valve(amount)
ManualInletBump(amount) ==
    /\ gui.pc = "idle"
    /\ manual_override_active' = TRUE
    /\ IF inlet_valve_pos # None
       THEN LET new_pos == Max(0, Min(1000, inlet_valve_pos - amount))
            IN  /\ gui' = [GuiIdle EXCEPT !.pc = "second",
                                          !.frame = Frame("inlet", "D5", 0, "manual")]
                /\ wire' = Frame("inlet", "S5", new_pos, "manual")
       ELSE gui' = gui /\ wire' = NoFrame
    /\ UNCHANGED <<link_lost, rpm, reportVars,
                   transport, e_stop, stop_event, polling_thread, hold_all_valves,
                   hold_outlet_valve, spVars, readVars, adaptVars, poller, adaptive,
                   calls, seq, appVars, estop_trace>>

\* the second write of a manual action (D1 after S1, D5 after S5)
ManualSecondFrame ==
    /\ gui.pc = "second"
    /\ gui' = GuiIdle
    /\ wire' = gui.frame
    /\ UNCHANGED <<link_lost, rpm, reportVars,
                   transport, ctlVars, spVars, readVars, adaptVars, poller, adaptive,
                   calls, seq,
                   appVars, estop_trace>>

\* _deactivate_manual_override_cooldown, 15 s after an activation
ManualOverrideTimeout ==
    /\ gui.pc = "idle"
    /\ manual_override_active
    /\ manual_override_active' = FALSE
    /\ wire' = NoFrame
    /\ UNCHANGED <<link_lost, rpm, reportVars,
                   transport, e_stop, stop_event, polling_thread, hold_all_valves,
                   hold_outlet_valve, spVars, readVars, adaptVars, taskVars, appVars,
                   estop_trace>>

\* _set_custom_pressure_main: validate, predict, and run set_pressure on a new
\* one-shot thread (slot c)
SetCustomPressureMain(c, pressure) ==
    /\ gui.pc = "idle"
    /\ set_pressure_button
    /\ calls[c].pc = "idle"
    /\ 0 <= pressure /\ pressure <= full_scale_pressure
    /\ calls' = [calls EXCEPT ![c] =
                    [pc |-> "entry", pressure |-> pressure,
                     predicted |-> PredictOutletPosition(learned_outlet_positions,
                                                         pressure),
                     by |-> "set", result |-> "none",
                     outlet |-> FALSE, inlet |-> "none", i |-> 0,
                     high |-> FALSE, ramped |-> <<>>, held |-> 0]]
    /\ wire' = NoFrame
    /\ UNCHANGED <<link_lost, rpm, reportVars,
                   transport, ctlVars, spVars, readVars, adaptVars, poller, adaptive,
                   gui, seq,
                   appVars, estop_trace>>


----------------------------------------------------------------------------
\* The automated run: start_calibration_thread, _run_auto_cal_with_checks and
\* run_calibration, on a thread of their own (seq)

\* round(x, 2) of x = num/den mTorr: the nearest multiple of 10 mTorr
Round2(num, den) == ((2 * num + 10 * den) \div (20 * den)) * 10

\* Faulty variant of GeneratedSetpoints: the DUTs' own points are left out
GeneratedSetpointsOfStandard(standard_fs_value, duts) ==
    {Round2(standard_fs_value * i, 100) : i \in {10 * k : k \in 0..10}}

\* master_setpoints: 0..100 % in steps of 10 of the standard's and every DUT's range
GeneratedSetpoints(standard_fs_value, duts) ==
    {Round2(fs * i, 100) :
        fs \in {standard_fs_value} \cup {duts[ch] : ch \in DOMAIN duts},
        i \in {10 * k : k \in 0..10}}

MasterSetpoints == GeneratedSetpoints(full_scale_pressure, active_duts)

\* sorted(list(S))
RECURSIVE Sorted(_)
Sorted(S) == IF S = {} THEN <<>> ELSE <<SetMin(S)>> \o Sorted(S \ {SetMin(S)})

\* the lowest set_pressure slot not in use, or None
FreeSlot ==
    IF \E c \in Calls : calls[c].pc = "idle"
    THEN SetMin({c \in Calls : calls[c].pc = "idle"}) ELSE None

\* turbo_controller.status_flags say at_speed and not standby
TurboIsReady == status_flags.at_speed /\ ~status_flags.standby

\* start_calibration_thread; duts is what the enabled DUT rows hold
StartCalibrationThread(duts) ==
    /\ gui.pc = "idle"
    /\ seq.pc = "idle"
    /\ ~is_calibrating /\ ~is_in_manual_mode /\ ~e_stop
    /\ active_duts' = duts
    /\ is_calibrating' = TRUE
    /\ set_pressure_button' = FALSE
    /\ e_stop_button' = TRUE
    /\ data_storage' = NoRow
    /\ seq' = [SeqIdle EXCEPT !.pc = "turbo_wait"]
    /\ wire' = NoFrame
    /\ UNCHANGED <<link_lost, rpm, reportVars,
                   transport, ctlVars, spVars, readVars, adaptVars, poller, adaptive,
                   calls, gui,
                   is_in_manual_mode, is_pumping_down, learned_outlet_positions,
                   completed_duts, manual_learn, status_flags, resume_button,
                   estop_trace>>

\* _run_auto_cal_with_checks: _wait_for_turbo_ready returns True when the pump is
\* ready or the e-stop ends its loop, False when the operation was cancelled
SeqWaitForTurboReady ==
    /\ seq.pc = "turbo_wait"
    /\ IF TurboIsReady \/ e_stop
       THEN seq' = [seq EXCEPT !.pc = "generate"] /\ UNCHANGED is_calibrating
       ELSE /\ ~(is_calibrating \/ is_in_manual_mode \/ is_pumping_down)
            /\ seq' = SeqIdle
            /\ is_calibrating' = FALSE
    /\ wire' = NoFrame
    /\ UNCHANGED <<link_lost, rpm, reportVars,
                   transport, ctlVars, spVars, readVars, adaptVars, poller, adaptive,
                   calls, gui,
                   is_in_manual_mode, is_pumping_down, learned_outlet_positions,
                   active_duts, completed_duts, data_storage, manual_learn,
                   status_flags, e_stop_button,
                   resume_button, set_pressure_button, estop_trace>>

\* setpoints = sorted(list(master_setpoints)); app.completed_duts.clear()
SeqGenerateSetpoints ==
    /\ seq.pc = "generate"
    /\ seq' = [seq EXCEPT !.pc = "loop", !.todo = Sorted(MasterSetpoints)]
    /\ completed_duts' = {}
    /\ wire' = NoFrame
    /\ UNCHANGED <<link_lost, rpm, reportVars,
                   transport, ctlVars, spVars, readVars, adaptVars, poller, adaptive,
                   calls, gui,
                   is_calibrating, is_in_manual_mode, is_pumping_down,
                   learned_outlet_positions, active_duts, data_storage, manual_learn,
                   status_flags,
                   e_stop_button, resume_button, set_pressure_button, estop_trace>>

\* for sp in setpoints: break when not calibrating; mark the DUTs whose range sp
\* has passed (sp > fs * 1.05); break when every DUT is completed
SeqLoopHead ==
    /\ seq.pc = "loop"
    /\ IF seq.todo = <<>> \/ ~is_calibrating
       THEN seq' = [seq EXCEPT !.pc = "finish"] /\ UNCHANGED completed_duts
       ELSE LET sp == Head(seq.todo)
                done == completed_duts \cup
                            {ch \in DOMAIN active_duts : sp * 100 > active_duts[ch] * 105}
            IN  /\ completed_duts' = done
                /\ IF Cardinality(done) = Cardinality(DOMAIN active_duts)
                   THEN seq' = [seq EXCEPT !.pc = "finish"]
                   ELSE /\ seq.count < MaxSetpoints
                        /\ seq' = [seq EXCEPT !.pc = "command", !.sp = sp,
                                              !.todo = Tail(seq.todo),
                                              !.count = seq.count + 1]
    /\ wire' = NoFrame
    /\ UNCHANGED <<link_lost, rpm, reportVars,
                   transport, ctlVars, spVars, readVars, adaptVars, poller, adaptive,
                   calls, gui,
                   is_calibrating, is_in_manual_mode, is_pumping_down,
                   learned_outlet_positions, active_duts, data_storage, manual_learn,
                   status_flags,
                   e_stop_button, resume_button, set_pressure_button, estop_trace>>

\* set_pressure(sp) for 0.0, else set_pressure(sp, _predict_outlet_position(sp)),
\* called on the run's own thread (slot c holds the invocation)
SeqCommand(c) ==
    /\ seq.pc = "command"
    /\ c = FreeSlot
    /\ calls' = [calls EXCEPT ![c] =
                    [pc |-> "entry", pressure |-> seq.sp,
                     predicted |-> IF seq.sp = 0 THEN None
                                   ELSE PredictOutletPosition(learned_outlet_positions,
                                                              seq.sp),
                     by |-> "seq", result |-> "none",
                     outlet |-> FALSE, inlet |-> "none", i |-> 0,
                     high |-> FALSE, ramped |-> <<>>, held |-> 0]]
    /\ seq' = [seq EXCEPT !.pc = "in_call", !.slot = c]
    /\ wire' = NoFrame
    /\ UNCHANGED <<link_lost, rpm, reportVars,
                   transport, ctlVars, spVars, readVars, adaptVars, poller, adaptive,
                   gui, appVars,
                   estop_trace>>

\* set_pressure has returned: stability_confirmed_time = None,
\* out_of_tolerance_start_time = None
SeqSetPressureReturned ==
    /\ seq.pc = "in_call"
    /\ calls[seq.slot].pc = "idle"
    /\ seq' = [seq EXCEPT !.pc = "stabilize", !.slot = None, !.stable = FALSE,
                          !.out_of_tolerance = FALSE, !.accepted = FALSE,
                          !.good_run = 0]
    /\ wire' = NoFrame
    /\ UNCHANGED <<link_lost, rpm, reportVars,
                   transport, ctlVars, spVars, readVars, adaptVars, poller, adaptive,
                   calls, gui,
                   appVars, estop_trace>>

\* priority_tolerance: 0.5 % of the smallest range among the DUTs that have sp as
\* one of their own points, else of the standard's range (times 1000)
PriorityTolerance1000(sp) ==
    LET relevant == {ch \in DOMAIN active_duts :
                        sp \in {Round2(active_duts[ch] * i, 100) :
                                    i \in {10 * k : k \in 0..10}}}
    IN  IF relevant = {} THEN full_scale_pressure * 5
        ELSE SetMin({active_duts[ch] * 5 : ch \in relevant})

\* Faulty variant of SeqStabilize: an unstable pass leaves the 3 s timer running
SeqStabilizeKeepsTimer(elapsed, accept) ==
    /\ seq.pc = "stabilize"
    /\ IF ~is_calibrating
       THEN seq' = [seq EXCEPT !.pc = "loop"]
       ELSE /\ Len(pressure_history) >= HistLen
            /\ current_pressure # None
            /\ LET is_stable == StdevBelow(pressure_history,
                                           (full_scale_pressure * 3) \div 10000)
                   in_tolerance == Abs(current_pressure - seq.sp) * 1000
                                       <= PriorityTolerance1000(seq.sp)
                   pass == [seq EXCEPT !.is_stable = is_stable,
                                       !.stable_pressure = current_pressure]
               IN  IF is_stable /\ in_tolerance
                   THEN seq' = [pass EXCEPT !.out_of_tolerance = FALSE,
                                  !.stable = TRUE,
                                  !.good_run = Min(seq.good_run + 1, 2),
                                  !.pc = IF seq.stable /\ elapsed THEN "lock"
                                         ELSE "stabilize"]
                   ELSE IF is_stable
                   THEN seq' = [pass EXCEPT !.stable = FALSE, !.good_run = 0,
                                  !.out_of_tolerance =
                                      ~(seq.out_of_tolerance /\ elapsed /\ ~accept),
                                  !.accepted = seq.out_of_tolerance /\ elapsed /\ accept,
                                  !.pc = IF seq.out_of_tolerance /\ elapsed /\ accept
                                         THEN "lock" ELSE "stabilize"]
                   ELSE seq' = [pass EXCEPT !.stable = seq.stable, !.good_run = 0,
                                            !.out_of_tolerance = FALSE]
            /\ seq' # seq
    /\ wire' = NoFrame
    /\ UNCHANGED <<link_lost, rpm, reportVars,
                   transport, ctlVars, spVars, readVars, adaptVars, poller, adaptive,
                   calls, gui,
                   appVars, estop_trace>>

\* One pass of the stability wait that changes something.  elapsed: the 3 s of
\* confirmed stability (or the 20 s out of tolerance) have passed; accept: the
\* operator's answer to the out-of-tolerance prompt.
SeqStabilize(elapsed, accept) ==
    /\ seq.pc = "stabilize"
    /\ IF ~is_calibrating
       THEN seq' = [seq EXCEPT !.pc = "loop"]
       ELSE /\ Len(pressure_history) >= HistLen
            /\ current_pressure # None
            /\ LET is_stable == StdevBelow(pressure_history,
                                           (full_scale_pressure * 3) \div 10000)
                   in_tolerance == Abs(current_pressure - seq.sp) * 1000
                                       <= PriorityTolerance1000(seq.sp)
                   pass == [seq EXCEPT !.is_stable = is_stable,
                                       !.stable_pressure = current_pressure]
               IN  IF is_stable /\ in_tolerance
                   THEN seq' = [pass EXCEPT !.out_of_tolerance = FALSE,
                                  !.stable = TRUE,
                                  !.good_run = Min(seq.good_run + 1, 2),
                                  !.pc = IF seq.stable /\ elapsed THEN "lock"
                                         ELSE "stabilize"]
                   ELSE IF is_stable
                   THEN seq' = [pass EXCEPT !.stable = FALSE, !.good_run = 0,
                                  !.out_of_tolerance =
                                      ~(seq.out_of_tolerance /\ elapsed /\ ~accept),
                                  !.accepted = seq.out_of_tolerance /\ elapsed /\ accept,
                                  !.pc = IF seq.out_of_tolerance /\ elapsed /\ accept
                                         THEN "lock" ELSE "stabilize"]
                   ELSE seq' = [pass EXCEPT !.stable = FALSE, !.good_run = 0,
                                            !.out_of_tolerance = FALSE]
            /\ seq' # seq
    /\ wire' = NoFrame
    /\ UNCHANGED <<link_lost, rpm, reportVars,
                   transport, ctlVars, spVars, readVars, adaptVars, poller, adaptive,
                   calls, gui,
                   appVars, estop_trace>>

\* "Starting 5s data log. Locking outlet valve.": hold_outlet_valve = True
SeqLockOutlet ==
    /\ seq.pc = "lock"
    /\ hold_outlet_valve' = TRUE
    /\ seq' = [seq EXCEPT !.pc = "sample", !.iterated = FALSE, !.readings = FALSE,
                          !.dut_readings = [ch \in DOMAIN active_duts |-> None]]
    /\ wire' = NoFrame
    /\ UNCHANGED <<link_lost, rpm, reportVars,
                   transport, e_stop, stop_event, polling_thread, hold_all_valves,
                   manual_override_active, spVars, readVars, adaptVars, poller, adaptive,
                   calls, gui, appVars, estop_trace>>

\* the 5 s sampling loop: a pass appends current_pressure when it is not None,
\* and for every active DUT (completed or not) its live reading when that is not
\* NaN.  read: the channels whose DAQ voltage was read; the DUT reads the
\* chamber pressure.
SeqSample(read) ==
    /\ seq.pc = "sample"
    /\ is_calibrating
    /\ ~seq.iterated
    /\ seq' = [seq EXCEPT !.iterated = TRUE, !.readings = (current_pressure # None),
                          !.dut_readings =
                              [ch \in DOMAIN active_duts |->
                                  IF ch \in read /\ current_pressure # None
                                  THEN current_pressure ELSE None]]
    /\ wire' = NoFrame
    /\ UNCHANGED <<link_lost, rpm, reportVars,
                   transport, ctlVars, spVars, readVars, adaptVars, poller, adaptive,
                   calls, gui,
                   appVars, estop_trace>>

\* Faulty variant of SeqUnlockOutlet: a cancelled window leaves without
\* unlocking the outlet
SeqUnlockOutletUnlessCancelled ==
    /\ seq.pc = "sample"
    /\ seq.iterated \/ ~is_calibrating
    /\ hold_outlet_valve' = ~is_calibrating
    /\ seq' = [seq EXCEPT !.pc = IF is_calibrating THEN "learn" ELSE "loop"]
    /\ wire' = NoFrame
    /\ UNCHANGED <<link_lost, rpm, reportVars, transport, e_stop, stop_event, polling_thread,
                   hold_all_valves,
                   manual_override_active, spVars, readVars, adaptVars, poller, adaptive,
                   calls, gui, appVars, estop_trace>>

\* the loop ends (5 s passed, or not calibrating): hold_outlet_valve = False;
\* if not app.is_calibrating: continue
SeqUnlockOutlet ==
    /\ seq.pc = "sample"
    /\ seq.iterated \/ ~is_calibrating
    /\ hold_outlet_valve' = FALSE
    /\ seq' = [seq EXCEPT !.pc = IF is_calibrating THEN "learn" ELSE "loop"]
    /\ wire' = NoFrame
    /\ UNCHANGED <<link_lost, rpm, reportVars,
                   transport, e_stop, stop_event, polling_thread, hold_all_valves,
                   manual_override_active, spVars, readVars, adaptVars, poller, adaptive,
                   calls, gui, appVars, estop_trace>>

\* Faulty variant of Learn: the list keeps its first 10 entries
LearnKeepsOldest(store, sp, pos) ==
    LET old == IF sp \in DOMAIN store THEN store[sp] ELSE <<>>
        new == Append(old, pos)
        kept == IF Len(new) > 10 THEN SubSeq(new, 1, 10) ELSE new
    IN  [k \in DOMAIN store \cup {sp} |-> IF k = sp THEN kept ELSE store[k]]

\* learned_outlet_positions[sp].append(outlet_valve_pos), keeping the last 10
Learn(store, sp, pos) ==
    LET old == IF sp \in DOMAIN store THEN store[sp] ELSE <<>>
        new == Append(old, pos)
        kept == IF Len(new) > 10 THEN SubSeq(new, Len(new) - 9, Len(new)) ELSE new
    IN  [k \in DOMAIN store \cup {sp} |-> IF k = sp THEN kept ELSE store[k]]

\* no mean (no readings): continue; else learn the outlet position and log the row
SeqLearn ==
    /\ seq.pc = "learn"
    /\ seq' = [seq EXCEPT !.pc = "loop"]
    /\ learned_outlet_positions' =
          IF seq.readings /\ outlet_valve_pos # None
          THEN Learn(learned_outlet_positions, seq.sp, outlet_valve_pos)
          ELSE learned_outlet_positions
    /\ data_storage' =
          IF seq.readings
          THEN [Setpoint_Torr |-> seq.sp, Device_Pressure_Torr |-> seq.dut_readings]
          ELSE data_storage
    /\ wire' = NoFrame
    /\ UNCHANGED <<link_lost, rpm, reportVars,
                   transport, ctlVars, spVars, readVars, adaptVars, poller, adaptive,
                   calls, gui,
                   is_calibrating, is_in_manual_mode, is_pumping_down, active_duts,
                   completed_duts, manual_learn, status_flags, e_stop_button,
                   resume_button, set_pressure_button, estop_trace>>

\* after the loop and in finally: app.is_calibrating = False, then close_valves
SeqFinish ==
    /\ seq.pc = "finish"
    /\ is_calibrating' = FALSE
    /\ seq' = [seq EXCEPT !.pc = "cv_hold"]
    /\ wire' = NoFrame
    /\ UNCHANGED <<link_lost, rpm, reportVars,
                   transport, ctlVars, spVars, readVars, adaptVars, poller, adaptive,
                   calls, gui,
                   is_in_manual_mode, is_pumping_down, learned_outlet_positions,
                   active_duts, completed_duts, data_storage, manual_learn,
                   status_flags, e_stop_button,
                   resume_button, set_pressure_button, estop_trace>>

\* close_valves on the run's thread: hold_all_valves.set()
SeqCloseValvesHold ==
    /\ seq.pc = "cv_hold"
    /\ hold_all_valves' = TRUE
    /\ seq' = [seq EXCEPT !.pc = "cv_inlet"]
    /\ wire' = NoFrame
    /\ UNCHANGED <<link_lost, rpm, reportVars,
                   transport, e_stop, stop_event, polling_thread, hold_outlet_valve,
                   manual_override_active, spVars, readVars, adaptVars, poller, adaptive,
                   calls, gui, appVars, estop_trace>>

\* close_valves on the run's thread: C to the inlet
SeqCloseValvesInlet ==
    /\ seq.pc = "cv_inlet"
    /\ seq' = [seq EXCEPT !.pc = "cv_outlet"]
    /\ wire' = Frame("inlet", "C", 0, "close_valves")
    /\ UNCHANGED <<link_lost, rpm, reportVars,
                   transport, ctlVars, spVars, readVars, adaptVars, poller, adaptive,
                   calls, gui,
                   appVars, estop_trace>>

\* close_valves on the run's thread: C to the outlet
SeqCloseValvesOutlet ==
    /\ seq.pc = "cv_outlet"
    /\ seq' = [seq EXCEPT !.pc = "buttons"]
    /\ wire' = Frame("outlet", "C", 0, "close_valves")
    /\ UNCHANGED <<link_lost, rpm, reportVars,
                   transport, ctlVars, spVars, readVars, adaptVars, poller, adaptive,
                   calls, gui,
                   appVars, estop_trace>>

\* enable_buttons, run by the window 10 ms later
SeqEnableButtons ==
    /\ seq.pc = "buttons"
    /\ gui.pc = "idle"
    /\ e_stop_button' = FALSE
    /\ set_pressure_button' = TRUE
    /\ seq' = SeqIdle
    /\ wire' = NoFrame
    /\ UNCHANGED <<link_lost, rpm, reportVars,
                   transport, ctlVars, spVars, readVars, adaptVars, poller, adaptive,
                   calls, gui,
                   is_calibrating, is_in_manual_mode, is_pumping_down,
                   learned_outlet_positions, active_duts, completed_duts, data_storage,
                   manual_learn, status_flags,
                   resume_button, estop_trace>>

----------------------------------------------------------------------------
\* Other callers of set_pressure, and the turbo pump's status

\* _pump_to_vacuum: is_pumping_down = True and a new thread (slot c)
PumpToVacuum(c) ==
    /\ gui.pc = "idle"
    /\ c = FreeSlot
    /\ is_pumping_down' = TRUE
    /\ calls' = [calls EXCEPT ![c] = [CallIdle EXCEPT !.pc = "pv_wait", !.by = "pump"]]
    /\ wire' = NoFrame
    /\ UNCHANGED <<link_lost, rpm, reportVars,
                   transport, ctlVars, spVars, readVars, adaptVars, poller, adaptive,
                   gui, seq,
                   is_calibrating, is_in_manual_mode, learned_outlet_positions,
                   active_duts, completed_duts, data_storage, manual_learn,
                   status_flags, e_stop_button,
                   resume_button, set_pressure_button, estop_trace>>

\* _pump_to_vacuum_thread: _wait_for_turbo_ready, then set_pressure(0) unless e_stop
PumpToVacuumWait(c) ==
    /\ calls[c].pc = "pv_wait"
    /\ IF TurboIsReady /\ ~e_stop
       THEN calls' = Goto(c, "entry")
       ELSE /\ e_stop \/ ~(is_calibrating \/ is_in_manual_mode \/ is_pumping_down)
            /\ calls' = Goto(c, "pv_done")
    /\ wire' = NoFrame
    /\ UNCHANGED <<link_lost, rpm, reportVars,
                   transport, ctlVars, spVars, readVars, adaptVars, poller, adaptive,
                   gui, seq,
                   appVars, estop_trace>>

\* _pump_to_vacuum_thread: self.is_pumping_down = False
PumpToVacuumDone(c) ==
    /\ calls[c].pc = "pv_done"
    /\ is_pumping_down' = FALSE
    /\ calls' = [calls EXCEPT ![c] = [CallIdle EXCEPT !.result = calls[c].result]]
    /\ wire' = NoFrame
    /\ UNCHANGED <<link_lost, rpm, reportVars,
                   transport, ctlVars, spVars, readVars, adaptVars, poller, adaptive,
                   gui, seq,
                   is_calibrating, is_in_manual_mode, learned_outlet_positions,
                   active_duts, completed_duts, data_storage, manual_learn,
                   status_flags, e_stop_button,
                   resume_button, set_pressure_button, estop_trace>>

\* ManualCalFrame.set_manual_pressure(fs_fraction) with the standard in focus, and
\* _set_custom_pressure: predict, and run set_pressure on a new thread (slot c)
SetManualPressure(c, pressure) ==
    /\ gui.pc = "idle"
    /\ is_in_manual_mode
    /\ c = FreeSlot
    /\ 0 <= pressure /\ pressure <= full_scale_pressure
    /\ calls' = [calls EXCEPT ![c] =
                    [pc |-> "entry", pressure |-> pressure,
                     predicted |-> PredictOutletPosition(learned_outlet_positions,
                                                         pressure),
                     by |-> "manual", result |-> "none",
                     outlet |-> FALSE, inlet |-> "none", i |-> 0,
                     high |-> FALSE, ramped |-> <<>>, held |-> 0]]
    /\ manual_learn' = [target |-> pressure, learned |-> FALSE,
                        last_stability_state |-> FALSE]
    /\ wire' = NoFrame
    /\ UNCHANGED <<link_lost, rpm, reportVars,
                   transport, ctlVars, spVars, readVars, adaptVars, poller, adaptive,
                   gui, seq,
                   is_calibrating, is_in_manual_mode, is_pumping_down,
                   learned_outlet_positions, active_duts, completed_duts, data_storage,
                   status_flags, e_stop_button, resume_button, set_pressure_button,
                   estop_trace>>

\* ManualCalFrame.set_manual_pressure(fs_fraction) with DUT ch in focus: the
\* pressure is that fraction (percent here) of the DUT's own range
SetManualPressureOnDut(c, ch, percent) ==
    /\ gui.pc = "idle"
    /\ is_in_manual_mode
    /\ c = FreeSlot
    /\ ch \in DOMAIN active_duts
    /\ LET pressure == (active_duts[ch] * percent) \div 100
       IN  /\ calls' = [calls EXCEPT ![c] =
                          [pc |-> "entry", pressure |-> pressure,
                           predicted |-> PredictOutletPosition(learned_outlet_positions,
                                                               pressure),
                           by |-> "manual", result |-> "none",
                     outlet |-> FALSE, inlet |-> "none", i |-> 0,
                     high |-> FALSE, ramped |-> <<>>, held |-> 0]]
           /\ manual_learn' = [target |-> pressure, learned |-> FALSE,
                               last_stability_state |-> FALSE]
    /\ wire' = NoFrame
    /\ UNCHANGED <<link_lost, rpm, reportVars,
                   transport, ctlVars, spVars, readVars, adaptVars, poller, adaptive,
                   gui, seq,
                   is_calibrating, is_in_manual_mode, is_pumping_down,
                   learned_outlet_positions, active_duts, completed_duts, data_storage,
                   status_flags, e_stop_button, resume_button, set_pressure_button,
                   estop_trace>>

\* ManualCalFrame._run_manual_learning_loop: one pass that reads the histories.
\* When the pressure is first found stable on the target, the outlet position is
\* appended to the target's list (last 10 kept) and manual_point_learned is set.
ManualLearningPass ==
    /\ is_in_manual_mode
    /\ manual_learn.target # None /\ ~manual_learn.learned
    /\ Len(pressure_history) >= HistLen
    /\ current_pressure # None
    /\ LET is_stable == StdevBelow(pressure_history,
                                   (full_scale_pressure * 3) \div 10000)
           is_on_target == Abs(current_pressure - manual_learn.target) * 10000
                               < full_scale_pressure * 15
           is_stable_now == is_stable /\ is_on_target
           learns == /\ is_stable_now /\ ~manual_learn.last_stability_state
                     /\ outlet_valve_pos # None /\ manual_learn.target > 0
       IN  /\ learned_outlet_positions' =
                 IF learns
                 THEN Learn(learned_outlet_positions, manual_learn.target,
                            outlet_valve_pos)
                 ELSE learned_outlet_positions
           /\ manual_learn' = [manual_learn EXCEPT !.learned = learns,
                                                   !.last_stability_state = is_stable_now]
    /\ manual_learn' # manual_learn
    /\ wire' = NoFrame
    /\ UNCHANGED <<link_lost, rpm, reportVars,
                   transport, ctlVars, spVars, readVars, adaptVars, taskVars,
                   is_calibrating,
                   is_in_manual_mode, is_pumping_down, active_duts, completed_duts,
                   data_storage, status_flags, e_stop_button, resume_button,
                   set_pressure_button, estop_trace>>

\* the Standby button: _enter_standby_state runs close_valves and sends SBY
EnterStandbyState ==
    /\ gui.pc = "idle"
    /\ ~is_calibrating /\ ~is_in_manual_mode
    /\ gui' = [GuiIdle EXCEPT !.pc = "cv_hold", !.after = "standby"]
    /\ wire' = NoFrame
    /\ UNCHANGED <<link_lost, rpm, reportVars,
                   transport, ctlVars, spVars, readVars, adaptVars, poller, adaptive,
                   calls, seq,
                   appVars, estop_trace>>

\* TurboController._run_polling_loop: one STA reply that parses.  on, reached,
\* standby are the status bits and rpm_value is the speed field of the frame.
\* The flags are set from the bits and from self.rpm as the reply before left
\* it (line 97); self.rpm takes the frame's value after that (line 115).
TurboPoll(on, reached, standby, rpm_value) ==
    /\ LET fast == rpm * 1000 > standby_rpm_threshold * 1015
           is_decelerating == on /\ standby /\ fast
           is_at_speed == on /\ ~is_decelerating /\ reached
           is_accelerating == on /\ ~is_decelerating /\ ~reached
       IN  status_flags' = [is_on |-> on, standby |-> standby,
                            at_speed |-> is_at_speed,
                            decelerating |-> is_decelerating,
                            accelerating |-> is_accelerating]
    /\ rpm' = rpm_value
    /\ <<status_flags', rpm'>> # <<status_flags, rpm>>
    /\ wire' = NoFrame
    /\ UNCHANGED <<link_lost, reportVars, transport, ctlVars, spVars, readVars, adaptVars, taskVars,
                   is_calibrating,
                   is_in_manual_mode, is_pumping_down, learned_outlet_positions,
                   active_duts, completed_duts, data_storage, manual_learn,
                   e_stop_button, resume_button,
                   set_pressure_button, estop_trace>>

----------------------------------------------------------------------------
\* SpecTick: the adaptive tick as a function of its inputs.  The initial states
\* draw the setpoint, both histories, the outlet position and the blind flag
\* from bounded sets, and the max-slope latch as an earlier tick may have left
\* it; the counters start as constructed and evolve by ticks.

TickSetpoints == {1000, 4000, 6000, 9000}
TickOffsets == {-50, 0, 150, 300}
TickAmplitudes == {0, 8, 100}
TickSpikes == {0, 600}
TickInletPositions == {5, 500, 1000}
TickInletShapes == {"steady", "oscillating", "opening"}
TickOutletPositions == {30, 300, 900}

PressureHistoryOf(base, amp, spike) ==
    [i \in 1..HistLen |-> base + (IF i % 2 = 0 THEN amp ELSE 0)
                               + (IF i = HistLen THEN spike ELSE 0)]

InletHistoryOf(pos, shape) ==
    [i \in 1..HistLen |->
        IF i = HistLen \/ shape = "steady" THEN pos
        ELSE IF shape = "opening" THEN Min(pos + 5, 1000)
        ELSE IF i % 2 = 0 THEN pos
        ELSE IF pos >= 500 THEN pos - 60 ELSE pos + 60]

InitTick ==
    /\ e_stop = FALSE /\ stop_event = FALSE /\ polling_thread = TRUE
    /\ hold_all_valves = FALSE /\ hold_outlet_valve = FALSE
    /\ manual_override_active = FALSE
    /\ system_setpoint \in TickSetpoints
    /\ previous_setpoint \in {0, 2000}
    /\ \E b \in TickOffsets, a \in TickAmplitudes, s \in TickSpikes :
          pressure_history = PressureHistoryOf(system_setpoint + b, a, s)
    /\ current_pressure = pressure_history[HistLen]
    /\ inlet_valve_pos \in TickInletPositions
    /\ \E shape \in TickInletShapes :
          inlet_pos_history = InletHistoryOf(inlet_valve_pos, shape)
    /\ outlet_valve_pos \in TickOutletPositions
    /\ oscillation_counter = 0 /\ oscillation_cooldown = FALSE
    /\ inlet_oscillation_counter = 0 /\ inlet_near_closed_counter = 0
    /\ max_slope_hold \in BOOLEAN
    /\ inlet_high_blind_active \in BOOLEAN
    /\ last_log_reason = ""
    /\ TasksAtRest
    /\ WindowConnected

NextTick ==
    \/ AdaptiveBegin
    \/ \E expired \in BOOLEAN : AdaptiveEvaluate(expired)
    \/ AdaptiveWriteS1
    \/ AdaptiveWriteD1

SpecTick == InitTick /\ [][NextTick]_vars


----------------------------------------------------------------------------
\* SpecEStop: e-stop and resume against the adaptive loop, one set_pressure
\* worker and the manual inlet buttons.  The window starts connected, idle, in
\* an automatic calibration or in manual mode.

EStopPressures == {5300}
EStopInletPositions == {500}
EStopOutletPositions == {300}
EStopSetpoints == {0, 5000}
EStopBumps == {10}

InitEStop ==
    /\ ConstructedController
    /\ TasksAtRest
    /\ \E mode \in {"idle", "auto", "manual"} :
          /\ is_calibrating = (mode = "auto")
          /\ is_in_manual_mode = (mode = "manual")
          /\ set_pressure_button = (mode = "idle")
    /\ learned_outlet_positions = <<>>
    /\ active_duts = <<>> /\ completed_duts = {} /\ data_storage = NoRow
       /\ manual_learn = NoTarget /\ is_pumping_down = FALSE
    /\ status_flags = TurboReady /\ rpm = nominal_rpm_threshold
    /\ e_stop_button = TRUE /\ resume_button = FALSE

NextEStop ==
    \/ \E p \in EStopPressures, i \in EStopInletPositions, o \in EStopOutletPositions :
          Poll(p, i, o)
    \/ AdaptiveExit
    \/ AdaptiveSkip
    \/ AdaptiveBegin
    \/ \E expired \in BOOLEAN : AdaptiveEvaluate(expired)
    \/ AdaptiveWriteS1
    \/ AdaptiveWriteD1
    \/ \E pressure \in EStopSetpoints : SetCustomPressureMain(1, pressure)
    \/ SetPressureEntry(1)
    \/ SetPressureUpdate(1)
    \/ SetPressureClear(1)
    \/ SetPressureInletClose(1)
    \/ SetPressureAwaitClosed(1, TRUE)
    \/ SetPressureOutlet(1)
    \/ SetPressureOutletD1(1)
    \/ SetPressureSettle(1)
    \/ \E i \in EStopInletPositions, o \in EStopOutletPositions :
          SetPressureRepoll(1, i, o)
    \/ SetPressureInlet(1)
    \/ SetPressureInletD1(1)
    \/ EStopAction
    \/ CloseValvesHold
    \/ CloseValvesInlet
    \/ CloseValvesOutlet
    \/ AfterCloseValves
    \/ ResumeFromEStop
    \/ \E amount \in EStopBumps : ManualInletBump(amount)
    \/ ManualSecondFrame
    \/ ManualOverrideTimeout

SpecEStop == InitEStop /\ [][NextEStop]_vars


----------------------------------------------------------------------------
\* SpecRun: one automated run (its first MaxSetpoints setpoints) together with
\* the poller, the adaptive loop and the operator's manual outlet controls.  The
\* readings follow the setpoint: the pressure sits at the setpoint, the inlet
\* reads closed and the outlet fully open at setpoint 0.

RunPressures == {system_setpoint}
RunInletPositions == {IF system_setpoint = 0 THEN 1000 ELSE 500}
RunOutletPositions == {IF system_setpoint = 0 THEN 1000 ELSE 300}
RunDuts == {<<>>, <<full_scale_pressure>>}
RunBumps == {-10, 1}
RunRawCommands == {<<"S1", 600>>}

InitRun ==
    /\ ConstructedController
    /\ TasksAtRest
    /\ WindowConnected

NextRun ==
    \/ \E duts \in RunDuts :
          learned_outlet_positions = <<>> /\ StartCalibrationThread(duts)
    \/ SeqWaitForTurboReady
    \/ SeqGenerateSetpoints
    \/ SeqLoopHead
    \/ \E c \in Calls : SeqCommand(c)
    \/ SeqSetPressureReturned
    \/ \E elapsed \in BOOLEAN, accept \in BOOLEAN : SeqStabilize(elapsed, accept)
    \/ SeqLockOutlet
    \/ SeqSample(DOMAIN active_duts)
    \/ SeqUnlockOutlet
    \/ SeqLearn
    \/ SeqFinish
    \/ SeqCloseValvesHold
    \/ SeqCloseValvesInlet
    \/ SeqCloseValvesOutlet
    \/ SeqEnableButtons
    \/ \E c \in Calls :
          \/ SetPressureEntry(c)
          \/ SetPressureUpdate(c)
          \/ SetPressureClear(c)
          \/ SetPressureInletClose(c)
          \/ \E timeout \in BOOLEAN : SetPressureAwaitClosed(c, timeout)
          \/ \E p \in RunPressures : SetPressureReadPressure(c, p)
          \/ SetPressureOpenOutlet(c)
          \/ SetPressureOpenOutletD1(c)
          \/ SetPressureOutlet(c)
          \/ SetPressureOutletD1(c)
          \/ SetPressureSettle(c)
          \/ \E i \in RunInletPositions, o \in RunOutletPositions :
                SetPressureRepoll(c, i, o)
          \/ SetPressureInlet(c)
          \/ SetPressureInletD1(c)
    \/ \E p \in RunPressures, i \in RunInletPositions, o \in RunOutletPositions :
          Poll(p, i, o)
    \/ AdaptiveSkip
    \/ AdaptiveBegin
    \/ \E expired \in BOOLEAN : AdaptiveEvaluate(expired)
    \/ \E expired \in BOOLEAN : AdaptiveEvaluateToOscillationLog(expired)
    \/ AdaptiveOscillationLog
    \/ AdaptiveWriteS1
    \/ AdaptiveWriteD1
    \/ \E delta \in RunBumps : ManualOutletBump(delta)
    \/ ManualOutletClose
    \/ ManualOutletOpen
    \/ \E raw \in RunRawCommands : SendManualOutletCommand(raw[1], raw[2])
    \/ ManualSecondFrame
    \/ ManualOverrideTimeout

SpecRun == InitRun /\ [][NextRun]_vars

----------------------------------------------------------------------------
\* SpecCalls: the callers of set_pressure that the window offers (the Set
\* button, Pump to Vacuum, the manual-mode setpoint buttons), each on a thread
\* of its own, with the poller.

CallsSetpoints == {0, 5000}
CallsPressures == {2000}
CallsInletPositions == {1000}
CallsOutletPositions == {300}

InitCalls ==
    /\ ConstructedController
    /\ TasksAtRest
    /\ \E mode \in {"idle", "manual"} :
          /\ is_in_manual_mode = (mode = "manual")
          /\ set_pressure_button = (mode = "idle")
    /\ is_calibrating = FALSE /\ is_pumping_down = FALSE
    /\ learned_outlet_positions = <<>>
    /\ active_duts = <<>> /\ completed_duts = {} /\ data_storage = NoRow
       /\ manual_learn = NoTarget
    /\ status_flags = TurboReady /\ rpm = nominal_rpm_threshold
    /\ e_stop_button = TRUE /\ resume_button = FALSE

NextCalls ==
    \/ \E c \in Calls, pressure \in CallsSetpoints :
          c = FreeSlot /\ SetCustomPressureMain(c, pressure)
    \/ \E c \in Calls, pressure \in CallsSetpoints : SetManualPressure(c, pressure)
    \/ \E c \in Calls : PumpToVacuum(c)
    \/ \E c \in Calls :
          \/ PumpToVacuumWait(c)
          \/ PumpToVacuumDone(c)
          \/ SetPressureEntry(c)
          \/ SetPressureUpdate(c)
          \/ SetPressureClear(c)
          \/ SetPressureInletClose(c)
          \/ \E timeout \in BOOLEAN : SetPressureAwaitClosed(c, timeout)
          \/ \E p \in CallsPressures : SetPressureReadPressure(c, p)
          \/ SetPressureOpenOutlet(c)
          \/ SetPressureOpenOutletD1(c)
          \/ SetPressureOutlet(c)
          \/ SetPressureOutletD1(c)
          \/ SetPressureSettle(c)
          \/ \E i \in CallsInletPositions, o \in CallsOutletPositions :
                SetPressureRepoll(c, i, o)
          \/ SetPressureInlet(c)
          \/ SetPressureInletD1(c)
    \/ \E p \in CallsPressures, i \in CallsInletPositions, o \in CallsOutletPositions :
          Poll(p, i, o)

SpecCalls == InitCalls /\ [][NextCalls]_vars

----------------------------------------------------------------------------
\* SpecTurbo: the turbo pump's status changing under a connected controller:
\* the turbo poller, the Standby and Set buttons, the poller and the adaptive loop.

TurboSetpoints == {5000}
TurboPressures == {5300}
TurboInletPositions == {500}
TurboOutletPositions == {300}

\* the speed field of a frame: at the standby speed, at the nominal speed
TurboRpms == {standby_rpm_threshold, nominal_rpm_threshold}

\* TurboController.__init__: every flag False
TurboConstructed == [is_on |-> FALSE, at_speed |-> FALSE, standby |-> FALSE,
                     decelerating |-> FALSE, accelerating |-> FALSE]

InitTurbo ==
    /\ ConstructedController
    /\ TasksAtRest
    /\ is_calibrating = FALSE /\ is_in_manual_mode = FALSE /\ is_pumping_down = FALSE
    /\ learned_outlet_positions = <<>>
    /\ active_duts = <<>> /\ completed_duts = {} /\ data_storage = NoRow
       /\ manual_learn = NoTarget
    /\ status_flags = TurboConstructed /\ rpm = 0
    /\ e_stop_button = TRUE /\ resume_button = FALSE /\ set_pressure_button = TRUE

NextTurbo ==
    \/ \E on \in BOOLEAN, reached \in BOOLEAN, standby \in BOOLEAN, rpm_value \in TurboRpms :
          TurboPoll(on, reached, standby, rpm_value)
    \/ EnterStandbyState
    \/ CloseValvesHold
    \/ CloseValvesInlet
    \/ CloseValvesOutlet
    \/ AfterCloseValves
    \/ \E pressure \in TurboSetpoints : SetCustomPressureMain(1, pressure)
    \/ SetPressureEntry(1)
    \/ SetPressureUpdate(1)
    \/ SetPressureClear(1)
    \/ SetPressureOutlet(1)
    \/ SetPressureOutletD1(1)
    \/ SetPressureSettle(1)
    \/ \E i \in TurboInletPositions, o \in TurboOutletPositions :
          SetPressureRepoll(1, i, o)
    \/ SetPressureInlet(1)
    \/ SetPressureInletD1(1)
    \/ \E p \in TurboPressures, i \in TurboInletPositions, o \in TurboOutletPositions :
          Poll(p, i, o)
    \/ AdaptiveSkip
    \/ AdaptiveBegin
    \/ \E expired \in BOOLEAN : AdaptiveEvaluate(expired)
    \/ AdaptiveWriteS1
    \/ AdaptiveWriteD1

SpecTurbo == InitTurbo /\ [][NextTurbo]_vars

----------------------------------------------------------------------------
\* SpecRange: setpoints taken from a DUT whose range exceeds the standard's.
\* Either the window is in manual mode with the DUT rows as connected, or a run
\* is under way with its first RangeLogged setpoints logged (pressure at the
\* last of them, inlet reading 50 %, outlet 30 %).

RangeDuts == {<<2 * full_scale_pressure>>,
              <<full_scale_pressure \div 2, full_scale_pressure>>}
\* the DAQ reads every DUT's voltage, or none
RangeDutReads == {{}, DOMAIN active_duts}
RangePercents == {50, 100}
\* learned data loaded on connection: ten positions for each manual target
RangeLearned ==
    [sp \in {(active_duts[1] * percent) \div 100 : percent \in RangePercents} |->
        [k \in 1..10 |-> IF k = 1 THEN 299 ELSE 300]]
RangeInletPositions == {500}
RangeOutletPositions == {300}
\* the gauge stays where it was or has reached the setpoint; a gauge settled at
\* the setpoint may be disturbed by 200 mTorr
RangePressures ==
    ({current_pressure, system_setpoint} \ {None})
        \cup IF pressure_history = [k \in 1..HistLen |-> system_setpoint]
                  /\ system_setpoint >= 200
             THEN {system_setpoint - 200} ELSE {}

\* the state of a run that has logged the first n setpoints of its list
RunUnderWay(n) ==
    LET list == Sorted(MasterSetpoints)
        last == list[n]
    IN  /\ e_stop = FALSE /\ stop_event = FALSE /\ polling_thread = TRUE
        /\ hold_all_valves = FALSE /\ hold_outlet_valve = FALSE
        /\ manual_override_active = FALSE
        /\ system_setpoint = last /\ previous_setpoint = list[n - 1]
        /\ pressure_history = [k \in 1..HistLen |-> last]
        /\ current_pressure = last
        /\ inlet_valve_pos = 500 /\ outlet_valve_pos = 300
        /\ inlet_pos_history = [k \in 1..HistLen |-> 500]
        /\ oscillation_counter = 0 /\ oscillation_cooldown = FALSE
        /\ inlet_oscillation_counter = 0 /\ inlet_near_closed_counter = 0
        /\ max_slope_hold = FALSE /\ inlet_high_blind_active = FALSE
        /\ last_log_reason = ""
        /\ is_calibrating = TRUE /\ is_in_manual_mode = FALSE
        /\ set_pressure_button = FALSE
        /\ learned_outlet_positions =
              [sp \in {list[k] : k \in 1..n} |-> IF sp = 0 THEN <<1000>> ELSE <<300>>]
        /\ manual_learn = NoTarget
        /\ data_storage = [Setpoint_Torr |-> last,
                           Device_Pressure_Torr |-> [ch \in DOMAIN active_duts |-> last]]
        /\ seq = [SeqIdle EXCEPT !.pc = "loop", !.sp = last,
                                 !.todo = SubSeq(list, n + 1, Len(list))]

InitRange ==
    /\ active_duts \in RangeDuts
    /\ completed_duts = {} /\ is_pumping_down = FALSE
    /\ status_flags = TurboReady /\ rpm = nominal_rpm_threshold
    /\ e_stop_button = TRUE /\ resume_button = FALSE
    /\ poller = "run" /\ adaptive = AdaptiveIdle
    /\ calls = [c \in Calls |-> CallIdle]
    /\ gui = GuiIdle /\ wire = NoFrame /\ transport = IdleTransport /\ estop_trace = NoTrace
    /\ NoReport /\ link_lost = FALSE
    /\ \/ RunUnderWay(RangeLogged)
       \/ /\ ConstructedController
          /\ seq = SeqIdle /\ data_storage = NoRow /\ manual_learn = NoTarget
          /\ is_calibrating = FALSE /\ is_in_manual_mode = TRUE
          /\ set_pressure_button = FALSE
          /\ learned_outlet_positions = RangeLearned

NextRange ==
    \/ SeqLoopHead
    \/ SeqCommand(1)
    \/ SeqSetPressureReturned
    \/ \E elapsed \in BOOLEAN, accept \in BOOLEAN : SeqStabilize(elapsed, accept)
    \/ SeqLockOutlet
    \/ \E read \in RangeDutReads : SeqSample(read)
    \/ SeqUnlockOutlet
    \/ SeqLearn
    \/ \E percent \in RangePercents : SetManualPressureOnDut(1, 1, percent)
    \/ ManualLearningPass
    \/ SetPressureEntry(1)
    \/ SetPressureUpdate(1)
    \/ SetPressureClear(1)
    \/ SetPressureOutlet(1)
    \/ SetPressureOutletD1(1)
    \/ SetPressureSettle(1)
    \/ \E i \in RangeInletPositions, o \in RangeOutletPositions :
          SetPressureRepoll(1, i, o)
    \/ SetPressureInlet(1)
    \/ SetPressureInletD1(1)
    \/ \E p \in RangePressures, i \in RangeInletPositions, o \in RangeOutletPositions :
          Poll(p, i, o)

SpecRange == InitRange /\ [][NextRange]_vars

----------------------------------------------------------------------------
\* SpecStart: automatic calibrations started from the connected, idle window with
\* the DUT rows holding up to two ranges, while the turbo pump's status changes
\* and the operator may stop and resume.  The run is followed to its first
\* setpoint, or to its end when it stops before one.

StartRanges == {100, 1000, 5000, 10000, 20000}
StartDuts ==
    {<<>>} \cup {<<a>> : a \in StartRanges}
           \cup {<<a, b>> : a \in StartRanges, b \in StartRanges}

InitStart ==
    /\ ConstructedController
    /\ TasksAtRest
    /\ WindowConnected

NextStart ==
    \/ \E duts \in StartDuts : StartCalibrationThread(duts)
    \/ SeqWaitForTurboReady
    \/ SeqGenerateSetpoints
    \/ SeqLoopHead
    \/ SeqFinish
    \/ SeqCloseValvesHold
    \/ SeqCloseValvesInlet
    \/ SeqCloseValvesOutlet
    \/ SeqEnableButtons
    \/ \E on \in BOOLEAN, reached \in BOOLEAN, standby \in BOOLEAN, rpm_value \in TurboRpms :
          TurboPoll(on, reached, standby, rpm_value)
    \/ EStopAction
    \/ CloseValvesHold
    \/ CloseValvesInlet
    \/ CloseValvesOutlet
    \/ AfterCloseValves
    \/ ResumeFromEStop

SpecStart == InitStart /\ [][NextStart]_vars

----------------------------------------------------------------------------
\* SpecTransport: the poller, the adaptive loop and a set_pressure call using
\* both serial lines of a connected controller, and the two valve controllers
\* answering in their own time.

InitTransport ==
    /\ ConstructedController
    /\ TasksAtRest
    /\ WindowConnected

NextTransport ==
    \/ \E t \in {"poller", "set_pressure"}, cmd \in {"R5", "R6"} :
          TransportQueryBegin(t, "inlet", cmd)
    \/ \E t \in {"poller", "set_pressure"} : TransportQueryBegin(t, "outlet", "R6")
    \/ \E t \in TransportThreads, timeout \in BOOLEAN : TransportQueryRead(t, timeout)
    \/ \E t \in {"adaptive", "set_pressure"}, ep \in Endpoints, cmd \in {"S1", "D1"} :
          TransportWrite(t, ep, cmd)
    \/ \E ep \in Endpoints : DeviceReply(ep)
    \/ \E t \in {"poller", "set_pressure"} : TransportPortError(t, "inlet")
    \/ \E t \in TransportThreads : TransportPortError(t, "outlet")

SpecTransport == InitTransport /\ [][NextTransport]_vars

----------------------------------------------------------------------------
\* SpecPumpDown: the Set button commanding setpoint 0 with the gauge above or
\* below 75% of full scale, the poller, and the operator's E-Stop and Resume.
\* The inlet reads closed after at most two cycles of the poller that read it
\* half open.  The poller's cycles are taken where
\* the call can see them: during its wait for the inlet, until the inlet has
\* read closed (set_pressure reads nothing else that the poller stores).

PumpDownPressures == {8000}
PumpDownReadings == {2000, 8000}
PumpDownOutletPositions == {300}
PumpDownInletPositions == IF Len(inlet_pos_history) < 2 THEN {500, 1000} ELSE {1000}

InitPumpDown ==
    /\ ConstructedController
    /\ TasksAtRest
    /\ WindowConnected

NextPumpDown ==
    \/ \E p \in PumpDownPressures, i \in PumpDownInletPositions,
          o \in PumpDownOutletPositions :
          calls[1].pc = "z_wait" /\ inlet_valve_pos # 1000 /\ Poll(p, i, o)
    \/ SetCustomPressureMain(1, 0)
    \/ SetPressureEntry(1)
    \/ SetPressureUpdate(1)
    \/ SetPressureClear(1)
    \/ SetPressureInletClose(1)
    \/ \E timeout \in BOOLEAN : SetPressureAwaitClosed(1, timeout)
    \/ \E p \in PumpDownReadings : SetPressureReadPressure(1, p)
    \/ SetPressureRamp(1)
    \/ SetPressureRampD1(1)
    \/ SetPressureHoldIf(1)
    \/ SetPressureHold(1)
    \/ SetPressureRamp2If(1)
    \/ SetPressureRamp2(1)
    \/ SetPressureRamp2D1(1)
    \/ SetPressureHold2(1)
    \/ SetPressureOpenOutlet(1)
    \/ SetPressureOpenOutletD1(1)
    \/ EStopAction
    \/ CloseValvesHold
    \/ CloseValvesInlet
    \/ CloseValvesOutlet
    \/ AfterCloseValves
    \/ ResumeFromEStop

SpecPumpDown == InitPumpDown /\ [][NextPumpDown]_vars

----------------------------------------------------------------------------
\* The results of one DUT after the run: the certificate decision of the
\* logging code and the verdict of the tuning analysis

\* the pairs kept by the NaN filter (None stands for NaN)
ValidPairs(rows) == SelectSeq(rows, LAMBDA r : r.std # None /\ r.dut # None)

\* run_calibration's pass check: more than 3 valid points and a largest
\* |dut - std| of at most fs*0.005
CertificateCheck(rows, fs) ==
    LET pts == ValidPairs(rows)
    IN  /\ Len(pts) > 3
        /\ \A i \in 1..Len(pts) : Abs(pts[i].dut - pts[i].std) * 1000 <= fs * 5

\* np.polyfit(std, dut, 1) in exact arithmetic: slope = N/D and
\* intercept = I/(n*D), with D > 0 as soon as two standard values differ
Polyfit(pts) ==
    LET n == Len(pts)
        Sx == SumSeq([i \in 1..n |-> pts[i].std])
        Sy == SumSeq([i \in 1..n |-> pts[i].dut])
        Sxx == SumSeq([i \in 1..n |-> pts[i].std * pts[i].std])
        Sxy == SumSeq([i \in 1..n |-> pts[i].std * pts[i].dut])
        D == n * Sxx - Sx * Sx
        N == n * Sxy - Sx * Sy
    IN  [n |-> n, D |-> D, N |-> N, I |-> D * Sy - N * Sx]

\* generate_tuning_suggestions for one DUT: fewer than 3 valid points is a
\* failure; else the DUT passes when none of the three flags is raised.  Each
\* comparison |a/(n*D)| > fs*k/1000 of the code is made on the integers as
\* |a| > (fs*k*n*D) div 1000, which is the same for an integer a.
TuningAnalysis(rows, fs) ==
    LET pts == ValidPairs(rows)
        f == Polyfit(pts)
        nD == f.n * f.D
        zero_offset_is_sig == Abs(f.I) > (fs * nD) \div 1000
        span_error_is_sig == Abs(f.D - f.N) > f.D \div 200
        residual(i) == nD * pts[i].dut - f.n * f.N * pts[i].std - f.I
        linearity_is_sig ==
            \E i \in 1..Len(pts) : Abs(residual(i)) > (fs * nD) \div 500
    IN  IF Len(pts) < 3 THEN "fail"
        ELSE IF zero_offset_is_sig \/ span_error_is_sig \/ linearity_is_sig
        THEN "fail" ELSE "pass"

\* run_calibration after its loop: the results are logged and the certificate
\* decided only if the run is still calibrating
SeqLogResults ==
    /\ seq.pc = "log"
    /\ generated_certs' =
          (is_calibrating /\ CertificateCheck(cal_results_df, active_duts[1]))
    /\ seq' = [seq EXCEPT !.pc = "finish"]
    /\ wire' = NoFrame
    /\ UNCHANGED <<link_lost, rpm,
                   cal_results_df, dut_pass_status, transport, ctlVars, spVars, readVars,
                   adaptVars, poller, adaptive, calls, gui, appVars, estop_trace>>

\* analyze_and_suggest_tuning, the first callback scheduled by the run's finally
AnalyzeAndSuggestTuning ==
    /\ seq.pc = "buttons"
    /\ gui.pc = "idle"
    /\ dut_pass_status = "none"
    /\ dut_pass_status' = TuningAnalysis(cal_results_df, active_duts[1])
    /\ wire' = NoFrame
    /\ UNCHANGED <<link_lost, rpm,
                   cal_results_df, generated_certs, transport, ctlVars, spVars, readVars,
                   adaptVars, taskVars, appVars, estop_trace>>

\* SpecReport: the end of a run whose loop is over, for one DUT of 0.5 Torr full
\* scale and a results table of four rows; each DUT value is missing or reads
\* the standard's value plus a small offset.

ReportFullScale == 500
ReportStandards == <<0, 100, 250, 500>>
ReportOffsets == {0, 1, 3}

ReportTables ==
    {[i \in 1..Len(ReportStandards) |->
         [std |-> ReportStandards[i],
          dut |-> IF o[i] = None THEN None ELSE ReportStandards[i] + o[i]]] :
     o \in [1..Len(ReportStandards) -> ReportOffsets \cup {None}]}

InitReport ==
    /\ ConstructedController
    /\ poller = "run" /\ adaptive = AdaptiveIdle
    /\ calls = [c \in Calls |-> CallIdle]
    /\ gui = GuiIdle /\ wire = NoFrame /\ transport = IdleTransport
    /\ estop_trace = NoTrace
    /\ seq = [SeqIdle EXCEPT !.pc = "log"]
    /\ is_calibrating = TRUE /\ is_in_manual_mode = FALSE
    /\ learned_outlet_positions = <<>>
    /\ active_duts = <<ReportFullScale>> /\ completed_duts = {}
    /\ data_storage = NoRow /\ manual_learn = NoTarget /\ is_pumping_down = FALSE
    /\ status_flags = TurboReady /\ rpm = nominal_rpm_threshold
    /\ e_stop_button = TRUE /\ resume_button = FALSE /\ set_pressure_button = FALSE
    /\ cal_results_df \in ReportTables
    /\ dut_pass_status = "none" /\ generated_certs = FALSE
    /\ link_lost = FALSE

NextReport ==
    \/ SeqLogResults
    \/ SeqFinish
    \/ SeqCloseValvesHold
    \/ SeqCloseValvesInlet
    \/ SeqCloseValvesOutlet
    \/ AnalyzeAndSuggestTuning
    \/ dut_pass_status # "none" /\ SeqEnableButtons

SpecReport == InitReport /\ [][NextReport]_vars

----------------------------------------------------------------------------
\* SpecLink: a run under way (as in SpecRange) whose serial link to the valve
\* controllers may go down.  From then on every query of the poller times out
\* (read_until returns nothing after the port's 1 s timeout), so a poll reads no
\* pressure and no valve position; writes are still issued.

\* the link goes down: from now on _query_inlet and _query_outlet return ''
LinkLost ==
    /\ ~link_lost
    /\ link_lost' = TRUE
    /\ wire' = NoFrame
    /\ UNCHANGED <<rpm, reportVars, transport, ctlVars, spVars, readVars, adaptVars, taskVars,
                   appVars, estop_trace>>

LinkDuts == {<<2 * full_scale_pressure>>}
LinkPressures == ({current_pressure, system_setpoint} \ {None})

InitLink ==
    /\ active_duts \in LinkDuts
    /\ completed_duts = {} /\ is_pumping_down = FALSE
    /\ status_flags = TurboReady /\ rpm = nominal_rpm_threshold
    /\ e_stop_button = TRUE /\ resume_button = FALSE
    /\ poller = "run" /\ adaptive = AdaptiveIdle
    /\ calls = [c \in Calls |-> CallIdle]
    /\ gui = GuiIdle /\ wire = NoFrame /\ transport = IdleTransport /\ estop_trace = NoTrace
    /\ NoReport /\ link_lost = FALSE
    /\ RunUnderWay(RangeLogged)

NextLink ==
    \/ LinkLost
    \/ \E p \in LinkPressures, i \in RangeInletPositions, o \in RangeOutletPositions :
          IF link_lost THEN Poll(None, None, None) ELSE Poll(p, i, o)
    \/ SeqLoopHead
    \/ SeqCommand(1)
    \/ SeqSetPressureReturned
    \/ \E elapsed \in BOOLEAN, accept \in BOOLEAN : SeqStabilize(elapsed, accept)
    \/ SeqLockOutlet
    \/ SeqSample(DOMAIN active_duts)
    \/ SeqUnlockOutlet
    \/ SeqLearn
    \/ SeqFinish
    \/ SeqCloseValvesHold
    \/ SeqCloseValvesInlet
    \/ SeqCloseValvesOutlet
    \/ SeqEnableButtons
    \/ SetPressureEntry(1)
    \/ SetPressureUpdate(1)
    \/ SetPressureClear(1)
    \/ SetPressureOutlet(1)
    \/ SetPressureOutletD1(1)
    \/ SetPressureSettle(1)
    \/ \E i \in RangeInletPositions, o \in RangeOutletPositions :
          IF link_lost THEN SetPressureRepoll(1, None, None)
          ELSE SetPressureRepoll(1, i, o)
    \/ SetPressureInlet(1)
    \/ SetPressureInletD1(1)
    \/ EStopAction
    \/ CloseValvesHold
    \/ CloseValvesInlet
    \/ CloseValvesOutlet
    \/ AfterCloseValves

SpecLink == InitLink /\ [][NextLink]_vars

----------------------------------------------------------------------------
\* Properties

InBand(band, x) == band[1] <= x /\ x <= band[2]

\* The clamp table as the specification states it, by setpoint/FS
ClaimedBand(sp) ==
    IF sp * 10 <= full_scale_pressure THEN <<50, 850>>
    ELSE IF sp * 10 <= 4 * full_scale_pressure THEN <<150, 500>>
    ELSE IF sp * 10 < 9 * full_scale_pressure THEN <<220, 350>>
    ELSE <<220, 400>>

\* C5: every outlet position an evaluating adaptive tick commands (S1 v) lies in
\* the clamp band of system_setpoint/FS, whatever the histories, counters and flags.
C5_ClampInvariant ==
    (wire.by = "adaptive" /\ wire.cmd = "S1")
        => InBand(ClaimedBand(system_setpoint), wire.val)

\* C5 witness: a tick commanded a band edge because the outlet was outside the band
C5_Witness ==
    /\ wire.by = "adaptive" /\ wire.cmd = "S1"
    /\ ~InBand(ClaimedBand(system_setpoint), outlet_valve_pos)
    /\ wire.val \in {ClaimedBand(system_setpoint)[1], ClaimedBand(system_setpoint)[2]}


PositionCommands == {"S1", "D1", "S5", "D5"}

\* C1: while e_stop is set, no task writes a position command (S1/D1 or S5/D5)
\* to the inlet or the outlet line.
C1_NoPositionCommandDuringEStop ==
    e_stop => wire.cmd \notin PositionCommands

\* C2: when e_stop_action has run to its end (idle, automatic calibration or
\* manual mode), it has set hold_all_valves and written C to both lines.
C2_EStopClosesBothValves ==
    estop_trace.phase = "done"
        => estop_trace.held /\ estop_trace.inletC /\ estop_trace.outletC

\* C2 witness: an e-stop taken in manual mode has completed after closing both
C2_Witness ==
    /\ estop_trace.phase = "done" /\ estop_trace.mode = "manual"
    /\ estop_trace.held /\ estop_trace.inletC /\ estop_trace.outletC
    /\ e_stop

\* C3: after an e-stop followed by a resume, the poller and the adaptive loop
\* are both running again.
C3_LoopsRunAfterResume ==
    (estop_trace.phase = "done" /\ ~e_stop)
        => poller = "run" /\ adaptive.pc # "exited"

\* C7: a set_pressure that finds e_stop set on entry returns at once: it changes
\* neither setpoint, nor the pressure history, hold_all_valves, any adaptive
\* counter or flag, and it writes nothing.
C7_RejectedCallChangesNothing ==
    [][\A c \in Calls :
          (calls[c].pc = "entry" /\ e_stop /\ calls'[c].pc # "entry")
              => /\ calls'[c].result = "rejected"
                 /\ UNCHANGED <<system_setpoint, previous_setpoint, pressure_history,
                                hold_all_valves, adaptVars>>
                 /\ wire' = NoFrame]_vars

\* C7 witness: a call for another setpoint was rejected while e_stop is set
C7_Witness ==
    \E c \in Calls : calls[c].result = "rejected" /\ e_stop /\ system_setpoint # 0


\* C4: in every interleaving of the run and the adaptive loop, no adaptive tick
\* writes S1 or D1 to the outlet while hold_outlet_valve is true.
C4_NoAdaptiveWriteWhileOutletHeld ==
    (wire.by = "adaptive" /\ wire.ep = "outlet" /\ wire.cmd \in {"S1", "D1"})
        => ~hold_outlet_valve

\* C6: the initial outlet position a set_pressure(sp > 0) commands (the learned
\* prediction when there is one, else the from-zero table value) lies within
\* the clamp band of sp/FS.
C6_InitialOutletWithinClamp ==
    \A c \in Calls :
        (/\ calls[c].pc = "p_outlet_d1"
         /\ wire.by = "set_pressure" /\ wire.ep = "outlet" /\ wire.cmd = "S1")
            => InBand(ClaimedBand(calls[c].pressure), wire.val)

\* C9: while hold_outlet_valve is true, no manual outlet action (bump, close,
\* full open, raw command) writes to the outlet.
C9_NoManualOutletWriteWhileHeld ==
    (wire.by = "manual" /\ wire.ep = "outlet") => ~hold_outlet_valve


\* the set_pressure invocations that are past the e-stop check of line 314 and
\* have not returned
Executing == {c \in Calls : calls[c].pc \notin {"idle", "pv_wait", "pv_done", "entry"}}

\* C8: at most one invocation of set_pressure is executing at any time.
C8_AtMostOneSetPressure == Cardinality(Executing) <= 1

\* C10: while the turbo pump is not ready (at_speed false, or standby selected)
\* the adaptive loop writes no outlet adjustment.
C10_NoAdjustmentUnlessTurboReady ==
    (wire.by = "adaptive") => TurboIsReady


\* C11: a setpoint above the full scale is rejected whoever asks for it:
\* system_setpoint never exceeds FS and no inlet setpoint above 100 percent is
\* written.
C11_SetpointNeverAboveFullScale ==
    /\ system_setpoint <= full_scale_pressure
    /\ (wire.ep = "inlet" /\ wire.cmd = "S1" /\ wire.by = "set_pressure")
           => wire.val <= 1000

\* the pressure of the pass that ended the stability wait is within the
\* priority tolerance of the sequencer's setpoint
LockedInTolerance ==
    Abs(seq.stable_pressure - seq.sp) * 1000 <= PriorityTolerance1000(seq.sp)

\* C12 as stated: the sequencer leaves the stability wait for the sample window
\* only on a pass that found the full history stable and the pressure within
\* priority_tolerance, with the 3 s timer running since an earlier pass and no
\* unstable or out-of-tolerance pass in between.
C12_WindowOnlyAfterStableInTolerance ==
    seq.pc = "lock"
        => seq.is_stable /\ LockedInTolerance /\ seq.stable /\ seq.good_run >= 2

\* C12: the sequencer leaves the stability wait for the sample window only on a
\* pass that found the full history stable, and either the pressure was within
\* priority_tolerance with the 3 s timer running over passes that were all
\* stable and in tolerance, or the operator accepted the out-of-tolerance
\* reading at the prompt that follows 20 s out of tolerance.
C12_WindowAfterStableOrOverride ==
    seq.pc = "lock"
        => /\ seq.is_stable
           /\ IF LockedInTolerance
              THEN seq.stable /\ seq.good_run >= 2 /\ ~seq.accepted
              ELSE seq.accepted /\ seq.out_of_tolerance /\ ~seq.stable

\* C12 witness: the window is about to start on a stable reading out of
\* tolerance that the operator accepted
C12_Witness ==
    /\ seq.pc = "lock" /\ seq.is_stable /\ ~LockedInTolerance
    /\ seq.accepted /\ seq.stable_pressure # None

\* C13: in every result row whose setpoint is above 1.05 times a DUT's full
\* scale, the value recorded for that DUT is NaN.
C13_NaNBeyondDutRange ==
    \A ch \in DOMAIN data_storage.Device_Pressure_Torr :
        data_storage.Setpoint_Torr * 100 > active_duts[ch] * 105
            => data_storage.Device_Pressure_Torr[ch] = None

\* every list of the store holds at most 10 entries, each a position in 0..100 %
LearnedListsBounded ==
    \A sp \in DOMAIN learned_outlet_positions :
        /\ Len(learned_outlet_positions[sp]) <= 10
        /\ \A k \in DOMAIN learned_outlet_positions[sp] :
              /\ learned_outlet_positions[sp][k] >= 0
              /\ learned_outlet_positions[sp][k] <= 1000

\* the list of sp after a step is the 10 most recent of the list before it
\* followed by the outlet position, in order of arrival
LearnedMostRecent(sp) ==
    LET old == IF sp \in DOMAIN learned_outlet_positions
               THEN learned_outlet_positions[sp] ELSE <<>>
        all == Append(old, outlet_valve_pos)
        new == learned_outlet_positions'[sp]
    IN  /\ new[Len(new)] = outlet_valve_pos
        /\ \A k \in 1..(Len(new) - 1) : new[k] = all[Len(all) - Len(new) + k]
        /\ Len(new) = Min(Len(all), 10)

IsCompositeList(s, fs, duts) ==
    /\ \A k \in 1..(Len(s) - 1) : s[k] < s[k + 1]
    /\ {s[k] : k \in DOMAIN s} =
          {Round2(fs * i, 100) : i \in {0, 10, 20, 30, 40, 50, 60, 70, 80, 90, 100}}
              \cup UNION {{Round2(duts[ch] * i, 100) :
                              i \in {0, 10, 20, 30, 40, 50, 60, 70, 80, 90, 100}} :
                          ch \in DOMAIN duts}

\* C15: the setpoint list a run generates is the union of the 0..100 % points
\* (steps of 10) of the standard's and of every active DUT's range, rounded to 2
\* decimals, without duplicates and strictly ascending; for a 100 Torr standard
\* with DUTs of 100 and 10 Torr it is 0, 1, ..., 10, 20, ..., 100 Torr.
C15_GeneratedSetpointList ==
    /\ [][(seq.pc = "generate" /\ seq'.pc = "loop")
             => IsCompositeList(seq'.todo, full_scale_pressure, active_duts)]_vars
    /\ [](Sorted(GeneratedSetpoints(100000, <<100000, 10000>>))
             = [k \in 1..20 |-> IF k <= 11 THEN (k - 1) * 1000 ELSE (k - 10) * 10000])

\* C15 witness: a run with DUTs of 10 Torr and 1 Torr has generated its list of
\* 20 setpoints, of which the standard and the first DUT share eleven
C15_Witness ==
    /\ seq.pc = "loop" /\ seq.count = 0 /\ active_duts = <<10000, 1000>>
    /\ Len(seq.todo) = 20 /\ seq.todo[2] = 100 /\ seq.todo[20] = 10000
    /\ completed_duts = {}

\* C16: on each endpoint the transport operations of the poller, the adaptive
\* loop and the command path never overlap (a frame is written to a line only by
\* the thread that holds its lock, or while the lock is free), and the text a
\* query returns is the reply to its own request.
C16_ExclusiveLinesAndOwnReplies ==
    /\ \A t \in TransportThreads :
          transport.op[t].pc = "read" => transport.lock[transport.op[t].ep] = t
    /\ (wire.ep \in Endpoints /\ transport.lock[wire.ep] # "none")
          => transport.lock[wire.ep] = wire.by
    /\ \A t \in TransportThreads :
          (transport.op[t].pc = "idle" /\ transport.op[t].reply # None)
              => transport.op[t].reply = transport.op[t].id

\* C17: the pressure history and the inlet-position history are appended to only
\* by the poller: a step that leaves either of them longer or with a new last
\* entry is no step of set_pressure, the adaptive loop, the sequencer or the GUI.
C17_OnlyPollerAppends ==
    [][((pressure_history' # pressure_history /\ pressure_history' # <<>>)
           \/ (inlet_pos_history' # inlet_pos_history /\ inlet_pos_history' # <<>>))
          => (calls' = calls /\ adaptive' = adaptive /\ seq' = seq /\ gui' = gui)]_vars

\* C18: the turbo-readiness wait returns 'ready', and its caller enters the
\* operation (here run_calibration), only on having observed at_speed and not
\* standby; a wait ended by a cancel or by the e-stop does not start the operation.
C18_RunStartsOnlyWhenTurboReady ==
    [][(seq.pc = "turbo_wait" /\ seq'.pc = "generate") => TurboIsReady]_vars

\* C19: when set_pressure(0) gives up its 15 s wait for the inlet to be seen
\* closed, the call returns on that step having written no outlet command at
\* all, and its last (and only) inlet command is C.
C19_TimeoutAbortsPumpDown ==
    [][\A c \in Calls :
          (calls[c].pc = "z_wait" /\ calls'[c].result = "timeout")
              => /\ calls'[c].pc \in {"idle", "pv_done"}
                 /\ ~calls[c].outlet /\ calls[c].inlet = "C"
                 /\ wire' = NoFrame]_vars

\* C19 witness: a set_pressure(0) has returned on the timeout, the inlet reading
\* still short of closed
C19_Witness ==
    /\ \E c \in Calls : calls[c].result = "timeout" /\ calls[c].pc = "idle"
    /\ system_setpoint = 0 /\ inlet_valve_pos <= 999 /\ wire = NoFrame

\* C20: a transport timeout or port error during a write or a query stays
\* local: the query returns no value, the endpoint's lock is released, and the
\* poller and the adaptive loop keep running.
C20_TransportFailureStaysLocal ==
    /\ \A ep \in Endpoints : \A t \in TransportThreads :
          transport.lock[ep] = t => transport.op[t].pc = "read"
    /\ \A t \in {"poller", "adaptive"} : transport.op[t].pc # "dead"

\* C21: once the run's results have been logged and analysed, a certificate
\* was generated for the DUT exactly when the analysis passed it (at least 3
\* valid pairs, and no significant zero offset, span error or linearity error).
C21_CertificateIffAnalysisPass ==
    (seq.pc = "idle" /\ dut_pass_status # "none")
        => (generated_certs <=> dut_pass_status = "pass")

\* C22: the entry updates of set_pressure are one step for the adaptive loop: no
\* tick evaluates while a call has stored its new system_setpoint and the
\* pressure history still holds the ten samples taken before the command.
C22_NoTickOnNewSetpointAndOldSamples ==
    [][(adaptive.pc = "eval" /\ adaptive'.pc # "eval")
          => ~\E c \in Calls : /\ calls[c].pc = "clear"
                               /\ system_setpoint = calls[c].pressure
                               /\ system_setpoint # previous_setpoint
                               /\ Len(pressure_history) = HistLen]_vars

\* C23: a tick of the adaptive loop that evaluates reads the pressure history
\* (mean, stdev) only while it holds its ten samples, and a tick that takes the
\* inlet-trend branch (max slope detected or inlet overworked) looks up the
\* previous inlet sample only while the inlet history holds its ten samples.
C23_StatisticsOnFullHistories ==
    [][(adaptive.pc = "eval" /\ adaptive'.pc # "eval")
          => /\ Len(pressure_history) = HistLen
             /\ ((max_slope_hold' /\ ~max_slope_hold)
                    \/ adaptive'.reason = "Inlet valve overworked")
                   => Len(inlet_pos_history) = HistLen]_vars

\* The staged ramp: 2% to 20% in ten steps, then 20.5% to 25% in ten steps
StagedRamp == [k \in 1..20 |-> IF k <= 10 THEN 20 * k ELSE 200 + 5 * (k - 10)]

\* C24: a set_pressure(0) call that found the inlet closed and the pressure above
\* 75% of full scale writes S1 100 to the outlet only after it has written the
\* whole staged ramp and slept the 5 s and the 1 s hold.
C24_FullOpenOnlyAfterStagedRamp ==
    [][\A c \in Calls :
          (calls[c].high /\ calls[c].pc = "z_open" /\ calls'[c].pc = "z_open_d1")
             => (calls[c].ramped = StagedRamp /\ calls[c].held = 6)]_vars

\* C25: in a set_pressure(0) call the first frame written is C to the inlet; a
\* frame goes to the outlet only after that C and with the inlet read at 99.9
\* or more; the call's full-open begins with S1 100, and a call that runs to
\* completion ends by writing the D1 that follows it.
C25_InletClosedBeforeOutletMoves ==
    [][\A c \in Calls :
          (calls[c].pressure = 0 /\ calls[c].pc \notin {"idle", "pv_done"}
             /\ calls'[c] # calls[c])
          => /\ (wire'.by = "set_pressure" /\ calls[c].inlet = "none")
                   => wire' = Frame("inlet", "C", 0, "set_pressure")
             /\ (wire'.by = "set_pressure" /\ wire'.ep = "outlet")
                   => (calls[c].inlet = "C" /\ inlet_valve_pos # None
                       /\ inlet_valve_pos >= 999)
             /\ calls'[c].pc = "z_open_d1"
                   => wire' = Frame("outlet", "S1", 1000, "set_pressure")
             /\ calls'[c].result = "done"
                   => (calls[c].pc = "z_open_d1"
                       /\ wire' = Frame("outlet", "D1", 0, "set_pressure"))]_vars

\* C25 witness: a pump-down has run to completion, its last
\* frame the D1 after S1 100, with the inlet read closed
C25_Witness ==
    /\ calls[1].result = "done"
    /\ wire = Frame("outlet", "D1", 0, "set_pressure")
    /\ inlet_valve_pos = 1000
    /\ system_setpoint = 0

\* C26: while e_stop is set, a set_pressure(0) call that is ramping the outlet
\* down from high pressure writes no command to the outlet: no ramp step, no D1
\* and no full-open.
C26_NoOutletCommandOnceEStopSet ==
    [][\A c \in Calls :
          (calls[c].high /\ calls'[c] # calls[c] /\ e_stop)
             => ~(wire'.by = "set_pressure" /\ wire'.ep = "outlet")]_vars

\* The conditions under which a tick is to be skipped
SkipCondition ==
    \/ e_stop \/ manual_override_active \/ hold_all_valves \/ hold_outlet_valve
    \/ Len(pressure_history) < HistLen \/ system_setpoint <= 0
    \/ current_pressure = None \/ inlet_valve_pos = None

\* C27: a tick that finds one of the skip conditions at its start does not go on
\* to evaluate, and a step of the waiting adaptive thread changes no counter and
\* no adaptive flag and writes no frame (the flags also belong to set_pressure,
\* whose steps are set aside).
C27_SkippedTickChangesNothing ==
    [][/\ (adaptive.pc = "top" /\ SkipCondition) => adaptive'.pc \in {"top", "exited"}
       /\ (adaptive.pc = "top" /\ adaptive'.pc # "eval" /\ calls' = calls)
             => (UNCHANGED adaptVars /\ wire'.by # "adaptive")]_vars

\* C27 witness: a tick starts with a setpoint, a full history and known readings
\* while the manual override is active
C27_Witness ==
    /\ adaptive.pc = "top" /\ manual_override_active
    /\ ~e_stop /\ ~hold_all_valves /\ ~hold_outlet_valve
    /\ Len(pressure_history) = HistLen /\ system_setpoint > 0
    /\ current_pressure # None /\ inlet_valve_pos # None

\* C28: a tick that evaluates with the blind window active (the flag is set and
\* stays set through the tick) takes neither the stuck-high step nor the
\* inlet-overworked step, does not set max_slope_hold and increments neither
\* oscillation counter; and the flag is set only by a step of set_pressure that
\* finds previous_setpoint = 0.
C28_BlindWindowSuppresses ==
    [][/\ (adaptive.pc = "eval" /\ adaptive'.pc # "eval"
             /\ inlet_high_blind_active /\ inlet_high_blind_active')
          => /\ adaptive'.reason \notin {"Stuck high", "Inlet valve overworked"}
             /\ ~(max_slope_hold' /\ ~max_slope_hold)
             /\ oscillation_counter' <= oscillation_counter
             /\ inlet_oscillation_counter' <= inlet_oscillation_counter
       /\ (inlet_high_blind_active' /\ ~inlet_high_blind_active)
          => (previous_setpoint = 0
              /\ \E c \in Calls : calls[c].pc = "p_outlet_d1"
                                  /\ calls'[c].pc = "p_settle")]_vars

\* C28 witness: a tick has begun with the blind window active and the pressure
\* steady more than 0.2 Torr above the setpoint (the stuck-high condition)
C28_Witness ==
    /\ adaptive.pc = "eval" /\ inlet_high_blind_active
    /\ Len(pressure_history) = HistLen
    /\ StdevBelow(pressure_history, StableThreshold(system_setpoint))
    /\ current_pressure - system_setpoint > 200

\* C29: first match wins.  Taken for the ticks that evaluate a full history
\* outside the blind window with no oscillation pending (pressure counter 0,
\* inlet counter at most 1) and no leak-up, where the first three conditions
\* cannot match: the outlet target and the max-slope latch are those of the
\* first of stuck high, inlet overworked and inlet near-closed that matches,
\* and the hold rules apply only when none of the three does.
C29_FirstMatchWins ==
    [][(/\ adaptive.pc = "eval" /\ adaptive'.pc # "eval"
        /\ Len(pressure_history) = HistLen
        /\ ~inlet_high_blind_active'
        /\ oscillation_counter = 0 /\ inlet_oscillation_counter <= 1
        /\ ~(inlet_valve_pos < 10 /\ current_pressure - system_setpoint > 100))
       => LET cur == outlet_valve_pos
              inl == inlet_valve_pos
              ih == inlet_pos_history
              error == current_pressure - system_setpoint
              stable == StdevBelow(pressure_history, StableThreshold(system_setpoint))
              stuck == stable /\ error > 200 /\ ~oscillation_cooldown'
              over == ~stuck /\ inl < 750 /\ ~oscillation_cooldown'
              opening == Len(ih) > 1 /\ inl - ih[Len(ih) - 1] < -1
              near == /\ ~stuck /\ ~over
                      /\ inl > 995 /\ inlet_near_closed_counter + 1 >= 5
                      /\ system_setpoint > 0 /\ previous_setpoint # 0
              target == IF stuck THEN cur + 5
                        ELSE IF over THEN (IF opening THEN cur ELSE cur - 5)
                        ELSE IF near
                        THEN (IF error * 100 > full_scale_pressure
                              THEN cur + 10 ELSE cur + 5)
                        ELSE cur
              latch == IF over THEN (opening \/ max_slope_hold)
                       ELSE IF stuck \/ near THEN max_slope_hold
                       ELSE max_slope_hold /\ ~(stable /\ error > 100)
              clamped == Clamp(ClampBand(system_setpoint), target)
          IN  /\ max_slope_hold' = latch
              /\ IF Abs(clamped - cur) > 1
                 THEN adaptive'.pc = "s1" /\ adaptive'.pos = clamped
                 ELSE adaptive'.pc = "top"]_vars

\* C30: two consecutive evaluating ticks that both find, near the setpoint and
\* outside the blind window, a pressure standard deviation above
\* sp*0.003 + FS*0.0008: the first takes the oscillation counter from 0 to 1 and
\* sets the cooldown, the second takes it to 2, so that its action is the outlet
\* lowered by 0.2 (by 2.0 when error > 0.05*FS), clamped to the band of the
\* setpoint and written when it differs from the current position by more than
\* 0.1, and the counter is back at 0.
C30_SecondOscillatingTickActs ==
    [][(/\ adaptive.pc = "eval" /\ adaptive'.pc # "eval"
        /\ Len(pressure_history) = HistLen
        /\ Abs(SumSeq(pressure_history) - HistLen * system_setpoint) * 100
              < 2 * full_scale_pressure * HistLen
        /\ ~inlet_high_blind_active'
        /\ StdevAbove(pressure_history,
                      (system_setpoint * 3) \div 1000 + (full_scale_pressure * 8) \div 10000))
       => IF oscillation_counter = 0
          THEN oscillation_counter' = 1 /\ oscillation_cooldown'
          ELSE LET cur == outlet_valve_pos
                   step == IF (current_pressure - system_setpoint) * 100
                                 > full_scale_pressure * 5
                           THEN 20 ELSE 2
                   band == ClampBand(system_setpoint)
                   clamped == Max(band[1], Min(band[2], cur - step))
               IN  /\ oscillation_counter' = 0
                   /\ oscillation_cooldown'
                   /\ IF Abs(clamped - cur) > 1
                      THEN adaptive'.pc = "s1" /\ adaptive'.pos = clamped
                      ELSE adaptive'.pc = "top"]_vars

\* The second oscillating tick has decided an emergency descent: the counter
\* is back at 0 with the cooldown set, and the outlet command is 2.0 below
\* the current position
C30_Witness ==
    /\ adaptive.pc = "s1"
    /\ adaptive.reason = "EMERGENCY DESCENT"
    /\ adaptive.pos = outlet_valve_pos - 20
    /\ oscillation_counter = 0 /\ oscillation_cooldown
    /\ ~inlet_high_blind_active

\* C31: a set_pressure call for a setpoint above 0 that has no predicted outlet
\* position and finds previous_setpoint # 0 writes nothing to the outlet line:
\* from the choice of the initial outlet position to its return its only frames
\* are the inlet setpoint S1 100*sp/FS and the D1 after it, and the outlet
\* position is left as it is.
C31_OutletLeftWhereItIs ==
    [][\A c \in Calls :
          (/\ calls[c].pressure > 0 /\ calls[c].predicted = None
           /\ ~calls[c].outlet
           /\ \/ calls[c].pc = "p_outlet" /\ previous_setpoint # 0
              \/ calls[c].pc \in {"p_inlet", "p_inlet_d1"}
           /\ calls'[c] # calls[c])
          => /\ wire' \in {NoFrame,
                           Frame("inlet", "S1",
                                 (calls[c].pressure * 1000) \div full_scale_pressure,
                                 "set_pressure"),
                           Frame("inlet", "D1", 0, "set_pressure")}
             /\ calls'[c].pc \in {"p_inlet", "p_inlet_d1", "idle"}
             /\ ~calls'[c].outlet
             /\ outlet_valve_pos' = outlet_valve_pos]_vars

\* A call for a new setpoint above a nonzero previous one has loaded the inlet
\* setpoint without having written to the outlet
C31_Witness ==
    \E c \in Calls :
       /\ calls[c].pc = "p_inlet_d1" /\ calls[c].pressure > 0
       /\ calls[c].predicted = None /\ ~calls[c].outlet
       /\ previous_setpoint # 0
       /\ wire = Frame("inlet", "S1", (calls[c].pressure * 1000) \div full_scale_pressure,
                       "set_pressure")

\* C32: the sequencer pushes the outlet position onto the learned store only
\* for a setpoint above 0 and with a known outlet position: its learning step
\* changes the store only then, and never the list of setpoint 0.
C32_SequencerLearnsOnlyAboveZero ==
    [][(seq.pc = "learn" /\ seq'.pc = "loop")
       => /\ learned_outlet_positions' # learned_outlet_positions
                => seq.sp > 0 /\ outlet_valve_pos # None
          /\ 0 \in DOMAIN learned_outlet_positions'
                => /\ 0 \in DOMAIN learned_outlet_positions
                   /\ learned_outlet_positions'[0] = learned_outlet_positions[0]]_vars

\* C33: no thread holds the inlet lock and the outlet lock at the same time; a
\* lock is held only by a thread that is inside the serial operation it took
\* the lock for, on that endpoint, so it is free again once the operation has
\* ended, by a reply, a timeout or a port error; and the holder can always end
\* its operation by itself (the read times out), so that no group of threads
\* waits for one another.
C33_LocksScopedAndNeverNested ==
    /\ \A t \in TransportThreads :
          Cardinality({ep \in Endpoints : transport.lock[ep] = t}) <= 1
    /\ \A ep \in Endpoints :
          transport.lock[ep] # "none"
              => /\ transport.lock[ep] \in TransportThreads
                 /\ transport.op[transport.lock[ep]].pc = "read"
                 /\ transport.op[transport.lock[ep]].ep = ep
                 /\ ENABLED TransportQueryRead(transport.lock[ep], TRUE)

\* One thread's query has timed out and its lock is free again, while a
\* second thread is inside a query on the other line
C33_Witness ==
    \E t, u \in TransportThreads :
       /\ t # u
       /\ transport.op[t].pc = "idle" /\ transport.op[t].id > 0
       /\ transport.op[t].reply = None
       /\ transport.lock[transport.op[t].ep] = "none"
       /\ transport.op[u].pc = "read" /\ transport.op[u].ep # transport.op[t].ep
       /\ transport.lock[transport.op[u].ep] = u

\* The flags the claim derives from one frame: its three status bits and its
\* speed field
FlagsOfFrame(on, reached, standby, frame_rpm) ==
    LET dec == on /\ standby /\ frame_rpm * 1000 > standby_rpm_threshold * 1015
    IN  [is_on |-> on, standby |-> standby,
         at_speed |-> on /\ ~dec /\ reached,
         decelerating |-> dec,
         accelerating |-> on /\ ~dec /\ ~reached]

\* C34: after every parsed status poll the turbo flags are those of that frame
\* alone: decelerating iff on, standby selected and the speed reported in the
\* same frame above 12000 * 1.015, else at_speed iff on and speed reached, else
\* accelerating iff on; so at most one of the three is set, and none with the
\* pump off.
C34_FlagsFromFrameAlone ==
    [][(status_flags' # status_flags \/ rpm' # rpm)
       => /\ \E reached \in BOOLEAN :
                status_flags' = FlagsOfFrame(status_flags'.is_on, reached,
                                             status_flags'.standby, rpm')
          /\ Cardinality({f \in {"decelerating", "at_speed", "accelerating"} :
                             status_flags'[f]}) <= 1
          /\ ~status_flags'.is_on
                => Cardinality({f \in {"decelerating", "at_speed", "accelerating"} :
                                   status_flags'[f]}) = 0]_vars

\* C35: with the link to the valve controllers lost during an automatic run,
\* the sequencer halts at its next check: the check at the head of the setpoint
\* loop does not go on to command a setpoint, and a pass of the stability wait
\* ends the wait without opening a sample window.
C35_SequencerHaltsOnLinkLoss ==
    [][(link_lost /\ is_calibrating /\ seq' # seq)
       => /\ seq.pc = "loop" => seq'.pc = "finish"
          /\ seq.pc = "stabilize" => seq'.pc = "loop"]_vars

\* C36: an evaluating tick whose decision is to hold (no condition matched, or
\* max_slope_hold holding: the decided position is the current one) emits no
\* outlet command, wherever the outlet stands; an S1 is emitted only for a
\* decided adjustment that, after clamping, differs from the current position
\* by more than 0.1.
C36_HoldEmitsNothing ==
    [][(adaptive.pc = "eval" /\ adaptive'.pc # "eval")
       => \E expired \in BOOLEAN :
             \E d \in {AdaptiveDecision(expired)} :
                /\ inlet_high_blind_active' = d.blind
                /\ d.new = outlet_valve_pos => adaptive'.pc # "s1"
                /\ adaptive'.pc = "s1"
                      => Abs(adaptive'.pos - outlet_valve_pos) > 1]_vars

\* C37: once is_calibrating is false, run_calibration lets no further
\* set_pressure call take effect (none of its calls gets past the entry check)
\* and appends no further result row; and when it has returned, close_valves
\* has run: hold_all_valves is set and is_calibrating is false.
C37_NothingAfterCancel ==
    [][/\ (~is_calibrating /\ seq' # seq)
             => /\ data_storage' = data_storage
                /\ learned_outlet_positions' = learned_outlet_positions
       /\ \A c \in Calls :
             (~is_calibrating /\ calls[c].by = "seq" /\ calls[c].pc = "entry")
                => calls'[c].pc # "update"
       /\ (seq.pc = "cv_outlet" /\ seq'.pc = "buttons")
             => hold_all_valves' /\ ~is_calibrating']_vars

\* C38: hold_outlet_valve is true only while the sequencer is inside a sample
\* window; every step that leaves the window (the 5 s have passed, the run was
\* cancelled or stopped) clears it, and it is false whenever run_calibration is
\* not running.
C38_OutletHeldOnlyInWindow ==
    /\ [](hold_outlet_valve => seq.pc = "sample")
    /\ [][(seq.pc = "sample" /\ seq'.pc # "sample") => ~hold_outlet_valve']_vars

\* An e-stop has ended a sample window before its first pass: the sequencer is
\* back at the head of its loop and the outlet is unlocked
C38_Witness ==
    /\ seq.pc = "loop" /\ ~is_calibrating /\ e_stop
    /\ ~seq.iterated /\ seq.dut_readings = [ch \in DOMAIN active_duts |-> None]
    /\ active_duts # <<>>
    /\ ~hold_outlet_valve

\* C39: when a tick of the adaptive loop ends its evaluation (it goes on to
\* write or goes to sleep), the pressure-oscillation counter is 0 or 1, whatever
\* set_pressure and the poller did in between: a count of 2 is reset to 0 in
\* the tick that reaches it.
C39_OscillationCounterNeverAccumulates ==
    [][(adaptive.pc \in {"eval", "osc"} /\ adaptive'.pc \in {"top", "s1"})
          => oscillation_counter' \in {0, 1}]_vars

\* C40: an S1 and the D1 that activates it, written by one task to the outlet,
\* are never separated by another task's S1 on the outlet: no S1 goes to the
\* outlet while the adaptive loop, a set_pressure call or a manual command has
\* written its S1 and not yet its D1.
C40_OutletPairsNeverSeparated ==
    [][(wire'.ep = "outlet" /\ wire'.cmd = "S1")
          => /\ adaptive.pc # "d1"
             /\ \A c \in Calls : calls[c].pc # "p_outlet_d1"
             /\ ~(gui.pc = "second" /\ gui.frame.ep = "outlet")]_vars

====
